---- MODULE Spec2Model ----
(***************************************************************************)
(* Model of the 313flight backend: offer normalisation and deduplication,  *)
(* price statistics, the heuristic and seasonal advisors, the history and  *)
(* seasonal tables, and the POST /api/flights and GET /api/history         *)
(* handlers.                                                               *)
(*                                                                         *)
(* Numbers are JavaScript numbers abstracted to exact integers plus NaN.   *)
(* Prices are multiples of PriceUnit so that every average the code takes  *)
(* (a sum over at most MaxFlights prices) is an exact integer; all the     *)
(* comparisons of the code are homogeneous in the price, so the unit does  *)
(* not change any outcome.                                                 *)
(***************************************************************************)
EXTENDS Integers, Sequences, FiniteSets, TLC

VARIABLES
  arg,             \* pure-function specifications: the argument drawn by Init
  result,          \* pure-function specifications: what the function returned
  req,             \* the POST /api/flights request in flight (locals + position)
  hist,            \* the GET /api/history request in flight
  price_history,   \* table price_history: sequence of snapshot rows
  seasonal_stats,  \* table seasonal_stats: set of rows keyed by (origin, destination, month)
  now,             \* the clock: [day, pm] (pm = past noon UTC)
  calls,           \* concurrent updateSeasonalStats calls: position and arguments
  env              \* the deployment: [DATABASE_URL set, build]

vars == <<arg, result, req, hist, price_history, seasonal_stats, now, calls, env>>

(***************************************************************************)
(* JavaScript values                                                       *)
(***************************************************************************)

\* NaN, as parseFloat returns it for a non-numeric text.
NaN == -999999

\* undefined / null, for a field a provider left out.
Undefined == "undefined"

\* null, for an array element or a missing object.
Null == [null |-> TRUE]

\* The deployment of the specifications that do not depend on it.
DefaultEnv == [DATABASE_URL |-> TRUE, build |-> "part_004"]

\* No value yet (a local not assigned, a function not called).
None == [none |-> TRUE]

\* Number.isFinite(x)
IsFinite(x) == x # NaN

\* !x for a string-valued field: undefined or ''.
FalsyStr(x) == x = Undefined \/ x = ""

\* x || '' on a string-valued field.
OrEmpty(x) == IF FalsyStr(x) THEN "" ELSE x

\* !x for a number: 0 or NaN.
FalsyNum(x) == x = 0 \/ x = NaN

\* a < b, a <= b, a > b on JavaScript numbers: false when either is NaN.
JsLt(a, b) == a # NaN /\ b # NaN /\ a < b
JsLe(a, b) == a # NaN /\ b # NaN /\ a <= b
JsGt(a, b) == JsLt(b, a)

\* a + b, a - b on JavaScript numbers.
JsAdd(a, b) == IF a = NaN \/ b = NaN THEN NaN ELSE a + b
JsSub(a, b) == IF a = NaN \/ b = NaN THEN NaN ELSE a - b

\* a * k and a / k for an exact integer k > 0.
JsMul(a, k) == IF a = NaN THEN NaN ELSE a * k
JsDiv(a, k) == IF a = NaN THEN NaN ELSE a \div k

RECURSIVE SumSeq(_)
\* prices.reduce((a, b) => a + b, 0)
SumSeq(s) == IF s = <<>> THEN 0 ELSE JsAdd(SumSeq(SubSeq(s, 1, Len(s) - 1)), s[Len(s)])

RECURSIVE MathMin(_)
\* Math.min(...s) for a non-empty s: NaN if any element is NaN.
MathMin(s) ==
  IF Len(s) = 1 THEN s[1]
  ELSE LET m == MathMin(SubSeq(s, 1, Len(s) - 1)) IN
       IF m = NaN \/ s[Len(s)] = NaN THEN NaN
       ELSE IF s[Len(s)] < m THEN s[Len(s)] ELSE m

RECURSIVE MathMax(_)
\* Math.max(...s) for a non-empty s: NaN if any element is NaN.
MathMax(s) ==
  IF Len(s) = 1 THEN s[1]
  ELSE LET m == MathMax(SubSeq(s, 1, Len(s) - 1)) IN
       IF m = NaN \/ s[Len(s)] = NaN THEN NaN
       ELSE IF s[Len(s)] > m THEN s[Len(s)] ELSE m

RECURSIVE Factorial(_)
Factorial(n) == IF n <= 1 THEN 1 ELSE n * Factorial(n - 1)

\* The sequences over S of length at most n.
SeqUpTo(S, n) == UNION {[1..k -> S] : k \in 0..n}

(***************************************************************************)
(* Bounds                                                                  *)
(***************************************************************************)

\* Offers in one list handed to dedupeFlights on its own.
MaxLen == 3

\* Largest days-until-departure given to the heuristic advisor on its own.
MaxDays == 32

\* Largest small price given to the heuristic advisor on its own.
MaxPrice == 14

\* Largest far_count and near_count of a bucket given to learningAdvice on its own.
MaxCount == 5

\* Concurrent updateSeasonalStats calls.
NumCalls == 2

\* Raw offers in one Amadeus response, offers in one SerpApi result.
MaxAmadeus == 2
MaxSerp == 1

\* Times the clock jumps past the 180-day staleness window while they run.
MaxJumps == 1

(***************************************************************************)
(* Offers (the object normalizeFlightOffer and the SerpApi adapter build)  *)
(***************************************************************************)

\* Most offers one search merges, and the price unit that makes the average
\* of any number of them exact.
MaxFlights == MaxAmadeus + MaxSerp
PriceUnit == Factorial(MaxFlights)
P(k) == k * PriceUnit

\* airlineNameFromCode (first definition), for the carriers of the model.
airlineNameFromCode(code) ==
  IF FalsyStr(code) THEN "Unknown airline"
  ELSE IF code = "6E" THEN "IndiGo"
  ELSE IF code = "EK" THEN "Emirates"
  ELSE code

\* buildGoogleFlightsUrl: the query it encodes, as a tuple.
buildGoogleFlightsUrl(originCode, destinationCode, departTimeIso) ==
  <<"google.com/search", originCode, destinationCode, OrEmpty(departTimeIso)>>

\* parseFloat(offer.price.grandTotal || offer.price.total || 0).  A price
\* field is absent, a numeric text (num its value) or another text.
ParseFloat(x) == IF x.kind = "numeric" THEN x.num ELSE IF x.kind = "text" THEN NaN ELSE 0
PriceOf(price) ==
  IF price.grandTotal.kind # "absent" THEN ParseFloat(price.grandTotal)
  ELSE IF price.total.kind # "absent" THEN ParseFloat(price.total)
  ELSE 0

\* normalizeFlightOffer.  offer.shape tells which object of the raw offer is
\* missing, if any: reading a property of it throws, and the catch returns
\* null.  A missing leaf (carrierCode, number, departure.at, arrival.at)
\* does not throw: it is copied as undefined.  The duration text is not modelled.
normalizeFlightOffer(offer, originCode, destinationCode, currency) ==
  IF offer.shape # "full" THEN Null
  ELSE [airline |-> airlineNameFromCode(offer.carrierCode),
        flightNumber |-> <<offer.carrierCode, offer.number>>,
        departTime |-> offer.departureAt,
        arrivalTime |-> offer.arrivalAt,
        nonstop |-> (offer.segments = 1),
        stops |-> offer.segments - 1,
        price |-> PriceOf(offer.price),
        currency |-> currency,
        bookingUrl |-> buildGoogleFlightsUrl(originCode, destinationCode, offer.departureAt),
        carrierCode |-> offer.carrierCode]

\* offers.map(normalizeFlightOffer).filter(Boolean)
NormalizeAll(offers, originCode, destinationCode, currency) ==
  LET mapped == [i \in DOMAIN offers |->
                   normalizeFlightOffer(offers[i], originCode, destinationCode, currency)]
      NotNull(f) == f # Null
  IN  SelectSeq(mapped, NotNull)

\* The key dedupeFlights builds: each field || '' (OrEmpty) and the four joined.  A
\* flight number is the pair <<carrier, number>> of the template string
\* `${carrierCode} ${number}`, and <<>> when it is the empty string.
DedupeKey(f) ==
  <<OrEmpty(f.carrierCode), f.flightNumber, OrEmpty(f.departTime), OrEmpty(f.arrivalTime)>>

\* Position of key k in the Map m (a sequence of [key, value] in insertion order), 0 if absent.
MapIndex(m, k) ==
  IF \E i \in DOMAIN m : m[i].key = k
  THEN CHOOSE i \in DOMAIN m : m[i].key = k
  ELSE 0

\* map.set(k, v): a new key is appended, an existing key keeps its place.
MapSet(m, k, v) ==
  IF MapIndex(m, k) = 0
  THEN Append(m, [key |-> k, value |-> v])
  ELSE [m EXCEPT ![MapIndex(m, k)] = [key |-> k, value |-> v]]

\* Array.from(map.values())
MapValues(m) == [i \in DOMAIN m |-> m[i].value]

\* One iteration that also replaces on an equal price.
DedupeVisit_replaceOnTie(m, f) ==
  IF f = Null THEN m
  ELSE LET i == MapIndex(m, DedupeKey(f)) IN
       IF i = 0 \/ (IsFinite(f.price) /\ JsLe(f.price, m[i].value.price))
       THEN MapSet(m, DedupeKey(f), f)
       ELSE m

\* One iteration of the forEach of dedupeFlights.
DedupeVisit(m, f) ==
  IF f = Null THEN m
  ELSE LET i == MapIndex(m, DedupeKey(f)) IN
       IF i = 0 \/ (IsFinite(f.price) /\ JsLt(f.price, m[i].value.price))
       THEN MapSet(m, DedupeKey(f), f)
       ELSE m

RECURSIVE DedupeFold(_)
DedupeFold(flights) ==
  IF flights = <<>> THEN <<>>
  ELSE DedupeVisit(DedupeFold(SubSeq(flights, 1, Len(flights) - 1)), flights[Len(flights)])

dedupeFlights(flights) == MapValues(DedupeFold(flights))

(***************************************************************************)
(* dedupeFlights on its own                                                *)
(***************************************************************************)

\* The offers the lists are drawn from: two carriers (one missing), prices
\* that parseFloat can return (NaN, 0, three positive ones), two providers.
DedupeOffers ==
  {[carrierCode |-> c, flightNumber |-> <<"6E", "123">>, departTime |-> "T10", arrivalTime |-> "T12",
    price |-> p, bookingUrl |-> u] :
     c \in {"6E", Undefined}, p \in {NaN, 0, 180, 200, 210}, u \in {"amadeus", "serp"}}

InitDedupe ==
  /\ arg \in SeqUpTo(DedupeOffers \cup {Null}, MaxLen)
  /\ result = None
  /\ req = None /\ hist = None /\ price_history = <<>> /\ seasonal_stats = {}
  /\ now = [day |-> 0, pm |-> FALSE] /\ calls = <<>> /\ env = DefaultEnv

CallDedupeFlights ==
  /\ result = None
  /\ result' = [out |-> dedupeFlights(arg)]
  /\ UNCHANGED <<arg, req, hist, price_history, seasonal_stats, now, calls, env>>

NextDedupe == CallDedupeFlights

SpecDedupe == InitDedupe /\ [][NextDedupe]_vars

\* C1: dedupeFlights returns exactly one offer per dedup key present in the
\* input, and the surviving offer's price is <= the price of every input
\* offer with the same key that was discarded.  (Stated for the discarded
\* offers whose price is a number, so that it is not refuted by NaN <= NaN.)
C1_OnePerKeyLowestPrice ==
  result # None =>
    LET out == result.out IN
    /\ \A i \in DOMAIN arg : arg[i] # Null =>
         Cardinality({j \in DOMAIN out : DedupeKey(out[j]) = DedupeKey(arg[i])}) = 1
    /\ \A j \in DOMAIN out : \E i \in DOMAIN arg : arg[i] = out[j]
    /\ \A j \in DOMAIN out : \A i \in DOMAIN arg :
         (arg[i] # Null /\ DedupeKey(arg[i]) = DedupeKey(out[j]) /\ arg[i] # out[j]
            /\ IsFinite(arg[i].price))
           => JsLe(out[j].price, arg[i].price)

\* The offers of the input that carry key k, in input order.
WithKey(flights, k) ==
  LET HasKey(f) == f # Null /\ DedupeKey(f) = k IN SelectSeq(flights, HasKey)

\* The offer that remains of s when the first is stored and each later one
\* replaces the stored one iff its price is strictly lower.
RECURSIVE Survivor(_)
Survivor(s) ==
  IF Len(s) = 1 THEN s[1]
  ELSE LET stored == Survivor(SubSeq(s, 1, Len(s) - 1)) IN
       IF JsLt(s[Len(s)].price, stored.price) THEN s[Len(s)] ELSE stored

\* Index in the input of the first offer with key k.
FirstSeen(flights, k) ==
  CHOOSE i \in DOMAIN flights :
    /\ flights[i] # Null /\ DedupeKey(flights[i]) = k
    /\ \A j \in 1..(i - 1) : flights[j] = Null \/ DedupeKey(flights[j]) # k

\* C19: dedupeFlights stores the first offer of a key and replaces the
\* stored offer iff the incoming price is strictly lower, so that on a tie
\* the first offer stays; the output lists the survivors in the order in
\* which their keys were first seen.
C19_ReplaceIffStrictlyLower ==
  result # None =>
    LET out == result.out IN
    /\ \A j \in DOMAIN out : out[j] = Survivor(WithKey(arg, DedupeKey(out[j])))
    /\ \A i \in DOMAIN arg : arg[i] # Null =>
         \E j \in DOMAIN out : DedupeKey(out[j]) = DedupeKey(arg[i])
    /\ \A i, j \in DOMAIN out : i < j =>
         FirstSeen(arg, DedupeKey(out[i])) < FirstSeen(arg, DedupeKey(out[j]))

\* A key seen first at 210 and again at 180 with another key in between:
\* the cheaper offer takes the first place; and a tie at 200 between the
\* two providers keeps the first.
C19_Witness ==
  /\ result # None /\ Len(arg) = 3 /\ Null \notin {arg[1], arg[2], arg[3]}
  /\ DedupeKey(arg[1]) = DedupeKey(arg[3]) /\ DedupeKey(arg[1]) # DedupeKey(arg[2])
  /\ arg[1].price = 210 /\ arg[3].price = 180
  /\ result.out = <<arg[3], arg[2]>>

C19_WitnessTie ==
  /\ result # None /\ Len(arg) = 2 /\ Null \notin {arg[1], arg[2]}
  /\ DedupeKey(arg[1]) = DedupeKey(arg[2])
  /\ arg[1].price = 200 /\ arg[2].price = 200 /\ arg[1] # arg[2]
  /\ result.out = <<arg[1]>>

\* C20: no offer whose price is not a finite number greater than zero is in
\* the output of dedupeFlights.
C20_NoUnpricedOfferSurvives ==
  result # None =>
    \A j \in DOMAIN result.out :
      IsFinite(result.out[j].price) /\ result.out[j].price > 0

(***************************************************************************)
(* Heuristic advisor (aiAdvisor.js, both definitions)                      *)
(***************************************************************************)

\* heuristicAdvice as first defined: a = [daysUntilDeparture, minPrice, avgPrice, maxPrice].
\* avg <= min * 1.1 is 10 avg <= 11 min, avg > min * 1.3 is 10 avg > 13 min,
\* spread < avg * 0.1 is 10 spread < avg.
heuristicAdvice_guarded(a) ==
  IF ~ JsGt(a.minPrice, 0)
  THEN [action |-> "NO_SIGNAL", confidence |-> 50]
  ELSE IF JsLe(a.daysUntilDeparture, 7)
  THEN [action |-> "BOOK",
        confidence |-> IF JsLe(JsMul(a.avgPrice, 10), JsMul(a.minPrice, 11)) THEN 85 ELSE 75]
  ELSE IF JsGt(a.daysUntilDeparture, 30)
  THEN IF JsGt(JsMul(a.avgPrice, 10), JsMul(a.minPrice, 13))
       THEN [action |-> "WAIT", confidence |-> 70]
       ELSE [action |-> "BOOK", confidence |-> 60]
  ELSE IF JsLt(JsMul(JsSub(a.maxPrice, a.minPrice), 10), a.avgPrice)
       THEN [action |-> "BOOK", confidence |-> 65]
       ELSE [action |-> "WAIT", confidence |-> 55]

heuristicAdvice_strictWeek(a) ==
  LET spread == JsSub(a.maxPrice, a.minPrice)
      isLowRelative == JsLe(JsMul(a.avgPrice, 10), JsMul(a.minPrice, 11))
  IN  IF JsLt(a.daysUntilDeparture, 7)
      THEN [action |-> "BOOK", confidence |-> IF isLowRelative THEN 85 ELSE 75]
      ELSE IF JsGt(a.daysUntilDeparture, 30)
      THEN IF JsGt(JsMul(a.avgPrice, 10), JsMul(a.minPrice, 13))
           THEN [action |-> "WAIT", confidence |-> 70]
           ELSE [action |-> "BOOK", confidence |-> 60]
      ELSE IF JsLt(JsMul(spread, 10), a.avgPrice)
           THEN [action |-> "BOOK", confidence |-> 65]
           ELSE [action |-> "WAIT", confidence |-> 55]

heuristicAdvice(a) ==
  LET spread == JsSub(a.maxPrice, a.minPrice)
      isLowRelative == JsLe(JsMul(a.avgPrice, 10), JsMul(a.minPrice, 11))
  IN  IF JsLe(a.daysUntilDeparture, 7)
      THEN [action |-> "BOOK", confidence |-> IF isLowRelative THEN 85 ELSE 75]
      ELSE IF JsGt(a.daysUntilDeparture, 30)
      THEN IF JsGt(JsMul(a.avgPrice, 10), JsMul(a.minPrice, 13))
           THEN [action |-> "WAIT", confidence |-> 70]
           ELSE [action |-> "BOOK", confidence |-> 60]
      ELSE IF JsLt(JsMul(spread, 10), a.avgPrice)
           THEN [action |-> "BOOK", confidence |-> 65]
           ELSE [action |-> "WAIT", confidence |-> 55]

\* classifyPricePosition: position = (avg - min) / range against 0.25 and 0.75.
classifyPricePosition(a) ==
  IF FalsyNum(a.minPrice) \/ FalsyNum(a.avgPrice) \/ FalsyNum(a.maxPrice) THEN "UNKNOWN"
  ELSE LET range == a.maxPrice - a.minPrice
           distFromMin == a.avgPrice - a.minPrice
       IN  IF range <= 0 THEN "TYPICAL"
           ELSE IF 4 * distFromMin <= range THEN "CHEAP"
           ELSE IF 4 * distFromMin >= 3 * range THEN "EXPENSIVE"
           ELSE "TYPICAL"

\* heuristicAdvice as defined the second time; spread < avg * 0.05 is 20 spread < avg.
heuristicAdvice2(a) ==
  LET spread == JsSub(a.maxPrice, a.minPrice)
      pricePos == classifyPricePosition(a)
  IN  IF JsLe(a.daysUntilDeparture, 7)
      THEN [action |-> "BOOK", confidence |-> 80]
      ELSE IF JsGt(a.daysUntilDeparture, 30) /\ pricePos = "EXPENSIVE"
      THEN [action |-> "WAIT", confidence |-> 70]
      ELSE IF JsLt(JsMul(spread, 20), a.avgPrice)
      THEN [action |-> "BOOK", confidence |-> 65]
      ELSE [action |-> "WAIT", confidence |-> 55]

(***************************************************************************)
(* The heuristic advisor on its own                                        *)
(***************************************************************************)

\* Days: NaN (an unparseable departure date), -1 (same-day search past noon), 0..MaxDays.
HeurDays == {NaN} \cup (-1..MaxDays)

\* Prices: NaN, 0, a small range around the 10 % and 30 % thresholds, and
\* the 100/104/120 scenario.
HeurPrices == {NaN, 0} \cup (10..MaxPrice) \cup {100, 104, 120}

InitHeuristic ==
  /\ arg \in [daysUntilDeparture : HeurDays, minPrice : HeurPrices,
              avgPrice : HeurPrices, maxPrice : HeurPrices]
  /\ result = None
  /\ req = None /\ hist = None /\ price_history = <<>> /\ seasonal_stats = {}
  /\ now = [day |-> 0, pm |-> FALSE] /\ calls = <<>> /\ env = DefaultEnv

CallHeuristicAdvice ==
  /\ result = None
  /\ result' = [fn |-> "heuristicAdvice", out |-> heuristicAdvice(arg)]
  /\ UNCHANGED <<arg, req, hist, price_history, seasonal_stats, now, calls, env>>

CallHeuristicAdvice2 ==
  /\ result = None
  /\ result' = [fn |-> "heuristicAdvice2", out |-> heuristicAdvice2(arg)]
  /\ UNCHANGED <<arg, req, hist, price_history, seasonal_stats, now, calls, env>>

NextHeuristic == CallHeuristicAdvice \/ CallHeuristicAdvice2

SpecHeuristic == InitHeuristic /\ [][NextHeuristic]_vars

\* The inputs C8 is about: numbers with 0 < min <= avg <= max.
OrderedPrices(a) ==
  /\ a.daysUntilDeparture # NaN
  /\ a.minPrice # NaN /\ a.avgPrice # NaN /\ a.maxPrice # NaN
  /\ 0 < a.minPrice /\ a.minPrice <= a.avgPrice /\ a.avgPrice <= a.maxPrice

\* C8: for 0 < min <= avg <= max the first heuristicAdvice returns: days <= 7:
\* BOOK, 85 if avg <= 1.1 min else 75; days > 30: WAIT/70 if avg > 1.3 min else
\* BOOK/60; 8 to 30 days: BOOK/65 if max - min < 0.1 avg else WAIT/55.
C8_HeuristicPolicy ==
  (result # None /\ result.fn = "heuristicAdvice" /\ OrderedPrices(arg)) =>
    LET d == arg.daysUntilDeparture
        mn == arg.minPrice
        av == arg.avgPrice
        mx == arg.maxPrice
        out == result.out
    IN  /\ d <= 7 =>
             /\ out.action = "BOOK"
             /\ out.confidence = (IF 10 * av <= 11 * mn THEN 85 ELSE 75)
        /\ d > 30 =>
             /\ 10 * av > 13 * mn => out.action = "WAIT" /\ out.confidence = 70
             /\ 10 * av <= 13 * mn => out.action = "BOOK" /\ out.confidence = 60
        /\ (8 <= d /\ d <= 30) =>
             /\ 10 * (mx - mn) < av => out.action = "BOOK" /\ out.confidence = 65
             /\ 10 * (mx - mn) >= av => out.action = "WAIT" /\ out.confidence = 55

\* Witness of C8: the scenario days = 5, min 100, avg 104, max 120 gave BOOK 85.
C8_Witness ==
  /\ result # None /\ result.fn = "heuristicAdvice"
  /\ arg = [daysUntilDeparture |-> 5, minPrice |-> 100, avgPrice |-> 104, maxPrice |-> 120]
  /\ result.out = [action |-> "BOOK", confidence |-> 85]

\* C9: each heuristicAdvice returns a confidence in [0,100], and BOOK when
\* daysUntilDeparture = 0, whatever the prices (NaN and 0 included).
C9_HeuristicBounded ==
  result # None =>
    /\ result.out.confidence \in 0..100
    /\ arg.daysUntilDeparture = 0 => result.out.action = "BOOK"

\* Witness of C9: the second definition called at day 0 with prices that are not numbers.
C9_Witness ==
  /\ result # None /\ result.fn = "heuristicAdvice2"
  /\ arg.daysUntilDeparture = 0 /\ arg.minPrice = NaN /\ arg.avgPrice = 0
  /\ result.out.action = "BOOK"

(***************************************************************************)
(* Time.  A timestamp counts half-days: 2 * day, plus 1 past noon (UTC).   *)
(* A date (YYYY-MM-DD) is a day number; months have 30 days.               *)
(***************************************************************************)

\* NOW() / new Date(): the timestamp of the clock c = [day, pm].
Timestamp(c) == 2 * c.day + (IF c.pm THEN 1 ELSE 0)

\* CURRENT_DATE / new Date(dateString): midnight of day d.
Midnight(d) == 2 * d

\* new Date(departureDate).getMonth() + 1
MonthOf(date) == ((date \div 30) % 12) + 1

\* INTERVAL '180 days' of seasonal_stats, INTERVAL '90 days' of price_history.
SeasonalDays == 180
HistoryDays == 90

(***************************************************************************)
(* Table seasonal_stats                                                    *)
(***************************************************************************)

\* SELECT ... FROM seasonal_stats WHERE origin = $1 AND destination = $2 AND month = $3
SelectSeasonal(table, origin, destination, month) ==
  {r \in table : r.origin = origin /\ r.destination = destination /\ r.month = month}

\* The SELECT of the second definition without its freshness condition.
SelectSeasonalRecent_anyAge(table, origin, destination, month, c) ==
  {r \in SelectSeasonal(table, origin, destination, month) : TRUE}

\* The same with AND last_updated >= NOW() - INTERVAL '180 days'
SelectSeasonalRecent(table, origin, destination, month, c) ==
  {r \in SelectSeasonal(table, origin, destination, month) :
     r.last_updated >= Timestamp(c) - 2 * SeasonalDays}

\* rows[0] of a result of at most one row (the key is unique).
FirstRow(rows) == CHOOSE r \in rows : TRUE

(***************************************************************************)
(* Seasonal learner query (aiAdvisor.js, both definitions)                 *)
(***************************************************************************)

\* relChange = (nearAvg - farAvg) / farAvg with farAvg = far_sum / far_count > 0
\* and nearAvg = near_sum / near_count is RelNum / RelDen with RelDen > 0.
RelNum(stat) == stat.near_sum * stat.far_count - stat.far_sum * stat.near_count
RelDen(stat) == stat.far_sum * stat.near_count
Abs(x) == IF x < 0 THEN -x ELSE x

\* ClassifyTrend with the strong threshold reached at exactly 10 %.
ClassifyTrend_inclusive(stat) ==
  LET n == RelNum(stat)
      d == RelDen(stat)
  IN  IF 20 * Abs(n) < d THEN [action |-> "NO_SIGNAL", confidence |-> 50, trend |-> "FLAT"]
      ELSE IF 10 * n >= d THEN [action |-> "BOOK", confidence |-> 75, trend |-> "UP"]
      ELSE IF 10 * n <= -d THEN [action |-> "WAIT", confidence |-> 75, trend |-> "DOWN"]
      ELSE IF n > 0 THEN [action |-> "BOOK", confidence |-> 65, trend |-> "UP"]
      ELSE [action |-> "WAIT", confidence |-> 65, trend |-> "DOWN"]

\* The classification of learningAdvice (first definition) once the guards passed.
ClassifyTrend(stat) ==
  LET n == RelNum(stat)
      d == RelDen(stat)
  IN  IF 20 * Abs(n) < d THEN [action |-> "NO_SIGNAL", confidence |-> 50, trend |-> "FLAT"]
      ELSE IF 10 * n > d THEN [action |-> "BOOK", confidence |-> 75, trend |-> "UP"]
      ELSE IF 10 * n < -d THEN [action |-> "WAIT", confidence |-> 75, trend |-> "DOWN"]
      ELSE IF n > 0 THEN [action |-> "BOOK", confidence |-> 65, trend |-> "UP"]
      ELSE [action |-> "WAIT", confidence |-> 65, trend |-> "DOWN"]

\* learningAdvice, first definition.  q = [origin, destination, departureDate];
\* dbFails: the SELECT throws.
learningAdvice_noCountGuard(table, q, c, dbFails) ==
  IF dbFails
  THEN [hasHistory |-> FALSE, points |-> 0, action |-> "NO_SIGNAL", confidence |-> 40, trend |-> "FLAT"]
  ELSE LET rows == SelectSeasonal(table, q.origin, q.destination, MonthOf(q.departureDate)) IN
       IF rows = {}
       THEN [hasHistory |-> FALSE, points |-> 0, action |-> "NO_SIGNAL", confidence |-> 40, trend |-> "FLAT"]
       ELSE LET stat == FirstRow(rows) IN
            IF stat.total_points < 6 \/ stat.far_count < 1 \/ stat.near_count < 1
            THEN [hasHistory |-> TRUE, points |-> stat.total_points, action |-> "NO_SIGNAL",
                  confidence |-> 45, trend |-> "FLAT"]
            ELSE IF stat.far_sum <= 0
            THEN [hasHistory |-> TRUE, points |-> stat.total_points, action |-> "NO_SIGNAL",
                  confidence |-> 45, trend |-> "FLAT"]
            ELSE [hasHistory |-> TRUE, points |-> stat.total_points] @@ ClassifyTrend(stat)

learningAdvice(table, q, c, dbFails) ==
  IF dbFails
  THEN [hasHistory |-> FALSE, points |-> 0, action |-> "NO_SIGNAL", confidence |-> 40, trend |-> "FLAT"]
  ELSE LET rows == SelectSeasonal(table, q.origin, q.destination, MonthOf(q.departureDate)) IN
       IF rows = {}
       THEN [hasHistory |-> FALSE, points |-> 0, action |-> "NO_SIGNAL", confidence |-> 40, trend |-> "FLAT"]
       ELSE LET stat == FirstRow(rows) IN
            IF stat.total_points < 6 \/ stat.far_count < 2 \/ stat.near_count < 2
            THEN [hasHistory |-> TRUE, points |-> stat.total_points, action |-> "NO_SIGNAL",
                  confidence |-> 45, trend |-> "FLAT"]
            \* !Number.isFinite(farAvg) || !Number.isFinite(nearAvg) || farAvg <= 0:
            \* the sums and counts are numbers and the counts are >= 2.
            ELSE IF stat.far_sum <= 0
            THEN [hasHistory |-> TRUE, points |-> stat.total_points, action |-> "NO_SIGNAL",
                  confidence |-> 45, trend |-> "FLAT"]
            ELSE [hasHistory |-> TRUE, points |-> stat.total_points] @@ ClassifyTrend(stat)

\* The classification of learningAdvice (second definition): change =
\* (nearAvg - farAvg) / farAvg with no guard on farAvg; far_sum = 0 makes it
\* +Infinity (nearAvg > 0) or NaN (nearAvg = 0).  Sums are >= 0.
ClassifyChange2(stat) ==
  IF stat.far_sum = 0
  THEN IF stat.near_sum > 0
       THEN [action |-> "BOOK", confidence |-> 75]   \* Infinity > 0.08
       ELSE [action |-> "WAIT", confidence |-> 70]   \* NaN: both tests false
  ELSE LET n == RelNum(stat)
           d == RelDen(stat)
       IN  IF 20 * Abs(n) < d THEN [action |-> "NO_SIGNAL", confidence |-> 40]
           ELSE IF 100 * n > 8 * d THEN [action |-> "BOOK", confidence |-> 75]
           ELSE [action |-> "WAIT", confidence |-> 70]

\* learningAdvice, second definition.
learningAdvice2(table, q, c, dbFails) ==
  IF dbFails
  THEN [action |-> "NO_SIGNAL", confidence |-> 0]
  ELSE LET rows == SelectSeasonalRecent(table, q.origin, q.destination, MonthOf(q.departureDate), c) IN
       IF rows = {}
       THEN [action |-> "NO_SIGNAL", confidence |-> 0]
       ELSE LET stats == FirstRow(rows) IN
            IF stats.far_count < 2 \/ stats.near_count < 2
            THEN [action |-> "NO_SIGNAL", confidence |-> 0]
            ELSE ClassifyChange2(stats)

(***************************************************************************)
(* The seasonal learner query on its own                                   *)
(***************************************************************************)

\* The route and the departure date of the query, and the clock it runs at.
QueryRoute == [origin |-> "DEL", destination |-> "DXB", departureDate |-> 430]
QueryClock == [day |-> 400, pm |-> TRUE]

\* Sums of far and near observations: 0 (free or missing prices) and values
\* that put near/far on both sides of the 5 %, 8 % and 10 % thresholds.
FarSums == {0, 1000, 2000}
NearSums == {0, 900, 950, 1000, 1040, 1050, 1100, 1380}

\* Ages of the row when queried, in half-days: fresh, exactly 180 days, older.
RowAges == {0, 2 * SeasonalDays, 2 * SeasonalDays + 1}

\* The rows updateSeasonalStats can have built for the queried bucket or
\* for another month's bucket.
LearnedRows ==
  {[origin |-> "DEL", destination |-> "DXB", month |-> m,
    total_points |-> fc + nc, far_sum |-> fs, far_count |-> fc,
    near_sum |-> ns, near_count |-> nc, last_updated |-> Timestamp(QueryClock) - age] :
     m \in {MonthOf(QueryRoute.departureDate), MonthOf(QueryRoute.departureDate) + 1},
     fc \in 0..MaxCount, nc \in 0..MaxCount, fs \in FarSums, ns \in NearSums, age \in RowAges}

ReachableRow(r) ==
  /\ r.total_points >= 1
  /\ r.far_count = 0 => r.far_sum = 0
  /\ r.near_count = 0 => r.near_sum = 0

InitLearning ==
  /\ seasonal_stats \in {{}} \cup {{r} : r \in {x \in LearnedRows : ReachableRow(x)}}
  /\ now = QueryClock
  /\ arg \in [origin : {QueryRoute.origin}, destination : {QueryRoute.destination},
              departureDate : {QueryRoute.departureDate}, dbFails : BOOLEAN]
  /\ result = None
  /\ req = None /\ hist = None /\ price_history = <<>> /\ calls = <<>> /\ env = DefaultEnv

CallLearningAdvice ==
  /\ result = None
  /\ result' = [fn |-> "learningAdvice", out |-> learningAdvice(seasonal_stats, arg, now, arg.dbFails)]
  /\ UNCHANGED <<arg, req, hist, price_history, seasonal_stats, now, calls, env>>

CallLearningAdvice2 ==
  /\ result = None
  /\ result' = [fn |-> "learningAdvice2", out |-> learningAdvice2(seasonal_stats, arg, now, arg.dbFails)]
  /\ UNCHANGED <<arg, req, hist, price_history, seasonal_stats, now, calls, env>>

NextLearning == CallLearningAdvice \/ CallLearningAdvice2

SpecLearning == InitLearning /\ [][NextLearning]_vars

\* The stored bucket of the query, if any.
QueriedBucket == SelectSeasonal(seasonal_stats, arg.origin, arg.destination, MonthOf(arg.departureDate))

\* C10: each learningAdvice returns NO_SIGNAL with confidence <= 45 when the
\* bucket is absent, far_count < 2 or near_count < 2, whatever far_sum and near_sum.
C10_NoSignalOnThinBucket ==
  (result # None /\
   (QueriedBucket = {} \/ \E r \in QueriedBucket : r.far_count < 2 \/ r.near_count < 2))
    => result.out.action = "NO_SIGNAL" /\ result.out.confidence <= 45

\* Witness of C10: six points, one of them far, a near average 38 % above the
\* far one, and the first definition still gave NO_SIGNAL.
C10_Witness ==
  /\ result # None /\ result.fn = "learningAdvice"
  /\ \E r \in QueriedBucket :
       /\ r.total_points = 6 /\ r.far_count = 1 /\ r.near_count = 5
       /\ r.far_sum = 1000 /\ r.near_sum = 1380 /\ r.last_updated = Timestamp(now)
  /\ ~ arg.dbFails
  /\ result.out.action = "NO_SIGNAL" /\ result.out.confidence = 45

\* C11: for a bucket with far_count >= 2, near_count >= 2, total_points >= 6
\* and farAvg > 0, the first learningAdvice classifies relChange =
\* (nearAvg - farAvg) / farAvg: below 5 % in absolute value NO_SIGNAL (FLAT);
\* above 10 % BOOK (UP) 75; below -10 % WAIT (DOWN) 75; from 5 % to 10 % BOOK
\* 65; from -10 % to -5 % WAIT 65.  relChange = num / den with den > 0.
C11_SeasonalClassification ==
  (result # None /\ result.fn = "learningAdvice" /\ ~ arg.dbFails) =>
    \A r \in QueriedBucket :
      (r.far_count >= 2 /\ r.near_count >= 2 /\ r.total_points >= 6 /\ r.far_sum > 0) =>
        LET num == r.near_sum * r.far_count - r.far_sum * r.near_count
            den == r.far_sum * r.near_count
            out == result.out
        IN  /\ (-den < 20 * num /\ 20 * num < den) =>
                 out.action = "NO_SIGNAL" /\ out.trend = "FLAT"
            /\ 10 * num > den =>
                 out.action = "BOOK" /\ out.trend = "UP" /\ out.confidence = 75
            /\ 10 * num < -den =>
                 out.action = "WAIT" /\ out.trend = "DOWN" /\ out.confidence = 75
            /\ (20 * num >= den /\ 10 * num <= den) =>
                 out.action = "BOOK" /\ out.confidence = 65
            /\ (10 * num >= -den /\ 20 * num <= -den) =>
                 out.action = "WAIT" /\ out.confidence = 65

\* Witness of C11: far_sum 1000 over 5, near_sum 1100 over 5, relChange exactly
\* 10 %: BOOK with confidence 65.
C11_Witness ==
  /\ result # None /\ result.fn = "learningAdvice" /\ ~ arg.dbFails
  /\ \E r \in QueriedBucket :
       /\ r.far_count = 5 /\ r.near_count = 5 /\ r.total_points = 10
       /\ r.far_sum = 1000 /\ r.near_sum = 1100
  /\ result.out.action = "BOOK" /\ result.out.confidence = 65 /\ result.out.trend = "UP"

\* The bucket was last updated more than 180 days before the query.
Stale(r) == r.last_updated < Timestamp(now) - 2 * SeasonalDays

C24_FirstDefinitionUsesStale ==
  /\ result # None /\ result.fn = "learningAdvice" /\ ~ arg.dbFails
  /\ \E r \in QueriedBucket : Stale(r)
  /\ result.out.action = "BOOK"

\* A bucket with enough observations on both sides whose far average is
\* not positive (sums are never negative or non-finite: far_sum = 0).
Degenerate(r) == r.far_count >= 2 /\ r.near_count >= 2 /\ r.far_sum <= 0

\* C25: for a bucket with far_count >= 2 and near_count >= 2 whose far
\* average is <= 0, each definition of learningAdvice returns NO_SIGNAL.
C25_DegenerateBucketNoSignal ==
  (result # None /\ result.fn \in {"learningAdvice", "learningAdvice2"}) =>
    \A r \in QueriedBucket :
      (Degenerate(r) /\ ~ Stale(r)) => result.out.action = "NO_SIGNAL"

\* The first definition alone keeps the guard.
C25_FirstDefinitionGuarded ==
  (result # None /\ result.fn = "learningAdvice") =>
    \A r \in QueriedBucket : Degenerate(r) => result.out.action = "NO_SIGNAL"

(***************************************************************************)
(* Seasonal learner update (part_004 lines 151-208, aiAdvisor.js 578-629)  *)
(***************************************************************************)

\* DELETE FROM seasonal_stats WHERE last_updated < CURRENT_DATE - INTERVAL '180 days'
DeleteStale(table, c) ==
  {r \in table : ~ (r.last_updated < Midnight(c.day - SeasonalDays))}

\* INSERT ... ON CONFLICT (origin, destination, month) DO UPDATE SET x = x + EXCLUDED.x:
\* one statement, which the database executes atomically.
Upsert_overwrite(table, v, c) ==
  LET old == SelectSeasonal(table, v.origin, v.destination, v.month)
      row == [origin |-> v.origin, destination |-> v.destination, month |-> v.month,
              total_points |-> 1, far_sum |-> v.far_sum, far_count |-> v.far_count,
              near_sum |-> v.near_sum, near_count |-> v.near_count,
              last_updated |-> Timestamp(c)]
  IN  (table \ old) \cup {row}

\* Upsert whose DO UPDATE leaves total_points alone.
Upsert_totalKept(table, v, c) ==
  LET old == SelectSeasonal(table, v.origin, v.destination, v.month)
      inserted == [origin |-> v.origin, destination |-> v.destination, month |-> v.month,
                   total_points |-> 1, far_sum |-> v.far_sum, far_count |-> v.far_count,
                   near_sum |-> v.near_sum, near_count |-> v.near_count,
                   last_updated |-> Timestamp(c)]
  IN  IF old = {}
      THEN table \cup {inserted}
      ELSE LET o == FirstRow(old) IN
           (table \ old) \cup
             {[o EXCEPT !.far_sum = o.far_sum + v.far_sum,
                        !.far_count = o.far_count + v.far_count,
                        !.near_sum = o.near_sum + v.near_sum,
                        !.near_count = o.near_count + v.near_count,
                        !.last_updated = Timestamp(c)]}

Upsert(table, v, c) ==
  LET old == SelectSeasonal(table, v.origin, v.destination, v.month)
      inserted == [origin |-> v.origin, destination |-> v.destination, month |-> v.month,
                   total_points |-> 1, far_sum |-> v.far_sum, far_count |-> v.far_count,
                   near_sum |-> v.near_sum, near_count |-> v.near_count,
                   last_updated |-> Timestamp(c)]
  IN  IF old = {}
      THEN table \cup {inserted}
      ELSE LET o == FirstRow(old) IN
           (table \ old) \cup
             {[o EXCEPT !.total_points = o.total_points + 1,
                        !.far_sum = o.far_sum + v.far_sum,
                        !.far_count = o.far_count + v.far_count,
                        !.near_sum = o.near_sum + v.near_sum,
                        !.near_count = o.near_count + v.near_count,
                        !.last_updated = Timestamp(c)]}

\* The classification both definitions make.
IsFar(days) == JsLe(30, days)
\* IsNear with a window of 15 days.
IsNear_fortnight(days) == JsLe(days, 15)

IsNear(days) == JsLe(days, 7)

\* The values both definitions bind to the INSERT for the call a.
UpsertValues(a) ==
  [origin |-> a.origin, destination |-> a.destination, month |-> MonthOf(a.departureDate),
   far_sum |-> IF IsFar(a.daysUntilDeparture) THEN a.avgPrice ELSE 0,
   far_count |-> IF IsFar(a.daysUntilDeparture) THEN 1 ELSE 0,
   near_sum |-> IF IsNear(a.daysUntilDeparture) THEN a.avgPrice ELSE 0,
   near_count |-> IF IsNear(a.daysUntilDeparture) THEN 1 ELSE 0]

\* The synchronous start of updateSeasonalStats: where the call a goes first.
\* part_004 returns without DATABASE_URL and cleans stale rows before the upsert.
UpdateEntry(a, e) ==
  IF e.build = "part_004" /\ ~ e.DATABASE_URL THEN "skipped"
  ELSE IF ~ IsFar(a.daysUntilDeparture) /\ ~ IsNear(a.daysUntilDeparture) THEN "skipped"
  ELSE IF e.build = "part_004" THEN "delete"
  ELSE "upsert"

(***************************************************************************)
(* Concurrent seasonal updates                                             *)
(***************************************************************************)

\* Departure dates in two different months, observations far, mid-range and near.
UpdateDates == {430, 460}
UpdateDays == {5, 15, 30}
UpdatePrices == {100, 120}

\* The builds: server.js with the first half of aiAdvisor.js ("server"),
\* part_004 ("part_004"), a caller of the exported updateSeasonalStats of
\* the second half of aiAdvisor.js ("advisor").
InitSeasonal ==
  /\ calls \in [1..NumCalls ->
       [pc : {"ready"}, origin : {"DEL"}, destination : {"DXB"}, departureDate : UpdateDates,
        daysUntilDeparture : UpdateDays, avgPrice : UpdatePrices, removed : {{}}]]
  /\ env \in [DATABASE_URL : BOOLEAN, build : {"part_004", "advisor"}]
  /\ seasonal_stats = {}
  /\ now = [day |-> 0, pm |-> FALSE]
  /\ arg = None /\ result = None /\ req = None /\ hist = None /\ price_history = <<>>

\* updateSeasonalStats up to its first await.
UpdateBegin(p) ==
  /\ calls[p].pc = "ready"
  /\ calls' = [calls EXCEPT ![p].pc = UpdateEntry(calls[p], env)]
  /\ UNCHANGED <<arg, result, req, hist, price_history, seasonal_stats, now, env>>

\* The DELETE of stale rows executes.
UpdateDelete(p) ==
  /\ calls[p].pc = "delete"
  /\ seasonal_stats' = DeleteStale(seasonal_stats, now)
  /\ calls' = [calls EXCEPT ![p].pc = "upsert",
                            ![p].removed = @ \cup {<<r.origin, r.destination, r.month>> :
                                                     r \in seasonal_stats \ seasonal_stats'}]
  /\ UNCHANGED <<arg, result, req, hist, price_history, now, env>>

\* The upsert executes.
UpdateUpsert(p) ==
  /\ calls[p].pc = "upsert"
  /\ seasonal_stats' = Upsert(seasonal_stats, UpsertValues(calls[p]), now)
  /\ calls' = [calls EXCEPT ![p].pc = "upserted"]
  /\ UNCHANGED <<arg, result, req, hist, price_history, now, env>>

\* A statement throws (connection refused, timeout): caught and logged.
UpdateFail(p) ==
  /\ calls[p].pc \in {"delete", "upsert"}
  /\ calls' = [calls EXCEPT ![p].pc = "failed"]
  /\ UNCHANGED <<arg, result, req, hist, price_history, seasonal_stats, now, env>>

\* Time passes: more than the staleness window.
ClockJump ==
  /\ now.day < MaxJumps * (SeasonalDays + 1)
  /\ now' = [now EXCEPT !.day = @ + SeasonalDays + 1]
  /\ UNCHANGED <<arg, result, req, hist, price_history, seasonal_stats, calls, env>>

NextSeasonal ==
  \/ \E p \in 1..NumCalls : UpdateBegin(p)
  \/ \E p \in 1..NumCalls : UpdateDelete(p)
  \/ \E p \in 1..NumCalls : UpdateUpsert(p)
  \/ \E p \in 1..NumCalls : UpdateFail(p)
  \/ ClockJump

SpecSeasonal == InitSeasonal /\ [][NextSeasonal]_vars

\* The buckets the calls are about, and the calls whose upsert executed on bucket k.
BucketKeys == {<<"DEL", "DXB", MonthOf(d)>> : d \in UpdateDates}
UpsertedOn(k) ==
  {p \in 1..NumCalls : calls[p].pc = "upserted" /\
     <<calls[p].origin, calls[p].destination, MonthOf(calls[p].departureDate)>> = k}

RECURSIVE SumPrices(_)
SumPrices(ps) ==
  IF ps = {} THEN 0
  ELSE LET p == CHOOSE x \in ps : TRUE IN calls[p].avgPrice + SumPrices(ps \ {p})

\* The bucket a call is about, its row in a table, and the five
\* accumulators of that row (all 0 when there is no row).
KeyOf(a) == <<a.origin, a.destination, MonthOf(a.departureDate)>>
RowOf(table, k) == SelectSeasonal(table, k[1], k[2], k[3])
Accumulators(table, k) ==
  IF RowOf(table, k) = {}
  THEN [total_points |-> 0, far_sum |-> 0, far_count |-> 0, near_sum |-> 0, near_count |-> 0]
  ELSE LET r == FirstRow(RowOf(table, k)) IN
       [total_points |-> r.total_points, far_sum |-> r.far_sum, far_count |-> r.far_count,
        near_sum |-> r.near_sum, near_count |-> r.near_count]

\* The step in which the upsert of call p executes adds its observation to
\* its bucket and to no other.
UpsertEffect(p) ==
  LET a == calls[p]
      k == KeyOf(a)
      old == Accumulators(seasonal_stats, k)
      new == Accumulators(seasonal_stats', k)
  IN  /\ seasonal_stats' \ RowOf(seasonal_stats', k) = seasonal_stats \ RowOf(seasonal_stats, k)
      /\ Cardinality(RowOf(seasonal_stats', k)) = 1
      /\ new.total_points = old.total_points + 1
      /\ a.daysUntilDeparture >= 30 =>
           /\ new.far_sum = old.far_sum + a.avgPrice /\ new.far_count = old.far_count + 1
           /\ new.near_sum = old.near_sum /\ new.near_count = old.near_count
      /\ a.daysUntilDeparture <= 7 =>
           /\ new.near_sum = old.near_sum + a.avgPrice /\ new.near_count = old.near_count + 1
           /\ new.far_sum = old.far_sum /\ new.far_count = old.far_count

\* The steps of call p.
StepOf(p) == calls'[p] # calls[p]
UpsertStep(p) == calls[p].pc = "upsert" /\ calls'[p].pc = "upserted"
CleanupStep(p) == calls[p].pc = "delete" /\ calls'[p].pc = "upsert"
MidRange(p) == 7 < calls[p].daysUntilDeparture /\ calls[p].daysUntilDeparture < 30

C13_BucketAccumulates ==
  /\ [](\A r \in seasonal_stats : r.total_points = r.far_count + r.near_count)
  /\ [][\A r \in seasonal_stats :
          LET next == RowOf(seasonal_stats', <<r.origin, r.destination, r.month>>) IN
          IF next = {}
          THEN r.last_updated < Midnight(now.day - SeasonalDays)
          ELSE \A n \in next : /\ n.total_points >= r.total_points
                               /\ n.far_count >= r.far_count
                               /\ n.near_count >= r.near_count]_vars

\* Witness of C13: a bucket that accumulated two far observations.
C13_Witness ==
  \E r \in seasonal_stats :
    /\ r.total_points = 2 /\ r.far_count = 2 /\ r.near_count = 0
    /\ \A p \in 1..2 : calls[p].pc = "upserted" /\ calls[p].daysUntilDeparture = 30

\* C2: for any interleaving of concurrent updates of one bucket, with no
\* retention deletion of that bucket, no update is lost: total_points is the
\* number of far or near calls executed on it, far_count and near_count the
\* numbers of far and near ones, far_sum and near_sum the sums of their avgPrice.
C2_NoLostUpdate ==
  \A k \in BucketKeys :
    (\A p \in 1..NumCalls : k \notin calls[p].removed) =>
      LET rows == SelectSeasonal(seasonal_stats, k[1], k[2], k[3])
          far == {p \in UpsertedOn(k) : calls[p].daysUntilDeparture >= 30}
          near == {p \in UpsertedOn(k) : calls[p].daysUntilDeparture <= 7}
      IN  IF UpsertedOn(k) = {} THEN rows = {}
          ELSE /\ Cardinality(rows) = 1
               /\ \A r \in rows :
                    /\ r.total_points = Cardinality(far) + Cardinality(near)
                    /\ r.far_count = Cardinality(far)
                    /\ r.near_count = Cardinality(near)
                    /\ r.far_sum = SumPrices(far)
                    /\ r.near_sum = SumPrices(near)

\* Witness of C2: every call ran, concurrently (each began before any upsert
\* could have finished the other), on the same bucket, one far and one near.
C2_Witness ==
  /\ \A p \in 1..NumCalls : calls[p].pc = "upserted" /\ calls[p].departureDate = 430
  /\ \E p, q \in 1..NumCalls : calls[p].daysUntilDeparture = 30 /\ calls[q].daysUntilDeparture = 5
  /\ \E r \in seasonal_stats : r.total_points = NumCalls

(***************************************************************************)
(* Statistics, blended advice and the flexible-date scan                   *)
(***************************************************************************)

\* flights.reduce((best, f) => (f.price < best.price ? f : best), flights[0])
RECURSIVE BestFlight(_)
BestFlight(flights) ==
  IF Len(flights) = 1 THEN flights[1]
  ELSE LET best == BestFlight(SubSeq(flights, 1, Len(flights) - 1))
           f == flights[Len(flights)]
       IN  IF JsLt(f.price, best.price) THEN f ELSE best

\* The statistics the handler computes over the prices of all merged offers.
PricesOf(flights) == [i \in DOMAIN flights |-> flights[i].price]
Stats(flights) ==
  [minPrice |-> MathMin(PricesOf(flights)),
   maxPrice |-> MathMax(PricesOf(flights)),
   avgPrice |-> JsDiv(SumSeq(PricesOf(flights)), Len(flights)),
   bestFlight |-> BestFlight(flights)]

\* Math.round(n / 2 + k) for integers n and k: halves round up.
RoundHalf(n, k) == ((n + 1) \div 2) + k

Min2(a, b) == IF a <= b THEN a ELSE b
Max2(a, b) == IF a >= b THEN a ELSE b

\* Math.round((dep - today) / day) with today = new Date(todayStr), a date.
DaysBetween(departureDate, todayStr) == JsSub(departureDate, todayStr)

\* Blend without the bonus for agreement.
Blend_noBonus(heuristic, learning) ==
  LET n == heuristic.confidence + learning.confidence IN
  IF heuristic.action = "BOOK" /\ learning.action = "BOOK"
  THEN [action |-> "BOOK", confidence |-> Min2(95, RoundHalf(n, 0))]
  ELSE IF heuristic.action = "WAIT" /\ learning.action = "WAIT"
  THEN [action |-> "WAIT", confidence |-> Min2(90, RoundHalf(n, 0))]
  ELSE [action |-> IF heuristic.action # "NO_SIGNAL" THEN heuristic.action ELSE learning.action,
        confidence |-> IF heuristic.action # learning.action /\ learning.hasHistory
                       THEN RoundHalf(n, -10)
                       ELSE RoundHalf(n, 0)]

\* Blend that softens a disagreement only when there is no history.
Blend_softenWithoutHistory(heuristic, learning) ==
  LET n == heuristic.confidence + learning.confidence IN
  IF heuristic.action = "BOOK" /\ learning.action = "BOOK"
  THEN [action |-> "BOOK", confidence |-> Min2(95, RoundHalf(n, 10))]
  ELSE IF heuristic.action = "WAIT" /\ learning.action = "WAIT"
  THEN [action |-> "WAIT", confidence |-> Min2(90, RoundHalf(n, 5))]
  ELSE [action |-> IF heuristic.action # "NO_SIGNAL" THEN heuristic.action ELSE learning.action,
        confidence |-> IF heuristic.action # learning.action /\ ~ learning.hasHistory
                       THEN RoundHalf(n, -10)
                       ELSE RoundHalf(n, 0)]

\* Blend that adds the two confidences where it should average them.
Blend_unaveraged(heuristic, learning) ==
  LET n == heuristic.confidence + learning.confidence IN
  IF heuristic.action = "BOOK" /\ learning.action = "BOOK"
  THEN [action |-> "BOOK", confidence |-> Min2(95, n + 10)]
  ELSE IF heuristic.action = "WAIT" /\ learning.action = "WAIT"
  THEN [action |-> "WAIT", confidence |-> Min2(90, n + 5)]
  ELSE [action |-> IF heuristic.action # "NO_SIGNAL" THEN heuristic.action ELSE learning.action,
        confidence |-> IF heuristic.action # learning.action /\ learning.hasHistory
                       THEN n - 10
                       ELSE n]

\* The blend of blendedAdvice, first definition.
Blend(heuristic, learning) ==
  LET n == heuristic.confidence + learning.confidence IN
  IF heuristic.action = "BOOK" /\ learning.action = "BOOK"
  THEN [action |-> "BOOK", confidence |-> Min2(95, RoundHalf(n, 10))]
  ELSE IF heuristic.action = "WAIT" /\ learning.action = "WAIT"
  THEN [action |-> "WAIT", confidence |-> Min2(90, RoundHalf(n, 5))]
  ELSE [action |-> IF heuristic.action # "NO_SIGNAL" THEN heuristic.action ELSE learning.action,
        confidence |-> IF heuristic.action # learning.action /\ learning.hasHistory
                       THEN RoundHalf(n, -10)
                       ELSE RoundHalf(n, 0)]

\* bestDeal of the first definition: six fields of bestFlight.
BestDeal(bestFlight) ==
  [airline |-> bestFlight.airline, flightNumber |-> bestFlight.flightNumber,
   price |-> bestFlight.price, currency |-> bestFlight.currency,
   nonstop |-> bestFlight.nonstop, stops |-> bestFlight.stops]

\* blendedAdvice, first definition.  a = the handler's argument object;
\* table, c, dbFails: the seasonal table, the clock and the SELECT's outcome.
blendedAdvice(a, table, c, dbFails) ==
  LET heuristic == heuristicAdvice([daysUntilDeparture |-> DaysBetween(a.departureDate, a.todayStr),
                                    minPrice |-> a.minPrice, avgPrice |-> a.avgPrice,
                                    maxPrice |-> a.maxPrice])
      learning == learningAdvice(table, [origin |-> a.origin, destination |-> a.destination,
                                         departureDate |-> a.departureDate], c, dbFails)
  IN  Blend(heuristic, learning) @@
      [heuristic |-> heuristic, learning |-> learning, bestDeal |-> BestDeal(a.bestFlight)]

\* The catch of blendedAdvice (first definition): the neutral fallback.
blendedAdviceCatch(a) ==
  [action |-> "NO_SIGNAL", confidence |-> 40, heuristic |-> Null, learning |-> Null,
   bestDeal |-> BestDeal(a.bestFlight)]

\* x.confidence || 60
OrSixty(x) == IF FalsyNum(x) THEN 60 ELSE x

\* The blend of blendedAdvice, second definition.
Blend2(heuristic, seasonal) ==
  IF seasonal.action # "NO_SIGNAL" /\ heuristic.action # "NO_SIGNAL"
     /\ seasonal.action = heuristic.action
  THEN [action |-> heuristic.action,
        confidence |-> Min2(95, Max2(heuristic.confidence, seasonal.confidence) + 5)]
  ELSE IF seasonal.action # "NO_SIGNAL" /\ heuristic.action = "NO_SIGNAL"
  THEN [action |-> seasonal.action, confidence |-> OrSixty(seasonal.confidence)]
  ELSE IF heuristic.action # "NO_SIGNAL" /\ seasonal.action = "NO_SIGNAL"
  THEN [action |-> heuristic.action, confidence |-> OrSixty(heuristic.confidence)]
  ELSE [action |-> "NO_SIGNAL", confidence |-> 40]

\* blendedAdvice, second definition.
blendedAdvice2(a, table, c, dbFails) ==
  LET heuristic == heuristicAdvice2([daysUntilDeparture |-> DaysBetween(a.departureDate, a.todayStr),
                                     minPrice |-> a.minPrice, avgPrice |-> a.avgPrice,
                                     maxPrice |-> a.maxPrice])
      seasonal == learningAdvice2(table, [origin |-> a.origin, destination |-> a.destination,
                                          departureDate |-> a.departureDate], c, dbFails)
  IN  Blend2(heuristic, seasonal) @@
      [heuristic |-> heuristic, learning |-> seasonal, bestDeal |-> a.bestFlight]

\* The offsets getFlexibleDateSummary scans, in its order.
FlexOffsets == <<-3, -2, -1, 1, 2, 3>>

\* baseCheapest && minPrice < baseCheapest: a falsy baseCheapest is the value.
CheaperThanBase(minPrice, baseCheapest) ==
  IF baseCheapest = 0 THEN "0"
  ELSE IF baseCheapest = NaN THEN "NaN"
  ELSE IF JsLt(minPrice, baseCheapest) THEN "true" ELSE "false"

\* One iteration with the try around the whole loop: a failure loses the
\* records gathered so far.
FlexVisit_dropOnFail(flexResults, offset, outcome, a) ==
  IF outcome.kind = "fail" THEN <<>>
  ELSE IF outcome.data = <<>> THEN flexResults
  ELSE LET normalized == NormalizeAll(outcome.data, a.originCode, a.destinationCode, a.currency) IN
       IF normalized = <<>> THEN flexResults
       ELSE Append(flexResults,
                   [date |-> a.departureDate + offset, offset |-> offset,
                    minPrice |-> MathMin(PricesOf(normalized)), currency |-> a.currency,
                    cheaperThanBase |->
                      CheaperThanBase(MathMin(PricesOf(normalized)), a.baseCheapest)])

\* One iteration of the loop.  outcome: searchFlights threw (kind "fail") or
\* answered the raw offers outcome.data.
FlexVisit(flexResults, offset, outcome, a) ==
  IF outcome.kind = "fail" THEN flexResults
  ELSE IF outcome.data = <<>> THEN flexResults
  ELSE LET normalized == NormalizeAll(outcome.data, a.originCode, a.destinationCode, a.currency) IN
       IF normalized = <<>> THEN flexResults
       ELSE Append(flexResults,
                   [date |-> a.departureDate + offset, offset |-> offset,
                    minPrice |-> MathMin(PricesOf(normalized)), currency |-> a.currency,
                    cheaperThanBase |->
                      CheaperThanBase(MathMin(PricesOf(normalized)), a.baseCheapest)])

RECURSIVE FlexLoop(_, _, _)
FlexLoop(n, world, a) ==
  IF n = 0 THEN <<>>
  ELSE FlexVisit(FlexLoop(n - 1, world, a), FlexOffsets[n], world[FlexOffsets[n]], a)

\* flexResults.sort((a, b) => a.offset - b.offset): insertion by offset, stable.
RECURSIVE SortByOffset(_)
SortByOffset(s) ==
  IF s = <<>> THEN <<>>
  ELSE LET rest == SortByOffset(SubSeq(s, 1, Len(s) - 1))
           x == s[Len(s)]
           Before(y) == y.offset <= x.offset
           After(y) == y.offset > x.offset
       IN  SelectSeq(rest, Before) \o <<x>> \o SelectSeq(rest, After)

\* getFlexibleDateSummary.  world: the provider's outcome for each offset.
getFlexibleDateSummary(a, world) == SortByOffset(FlexLoop(Len(FlexOffsets), world, a))

(***************************************************************************)
(* POST /api/flights                                                       *)
(***************************************************************************)

\* A departureDate missing from the request body.
NoDate == 0

\* The clock when the search arrives, and the dates asked for: yesterday,
\* today, and 5, 15 and 31 days ahead (the last one in the next month).
SearchDay == 400
SearchDates == {SearchDay - 1, SearchDay, SearchDay + 5, SearchDay + 15, SearchDay + 31}

\* Raw Amadeus offers: a priced nonstop, a cheaper one-stop of another
\* carrier, the first flight again with a price text that is not a number,
\* and an offer whose itinerary has no segments.
RawOffers ==
  {[shape |-> "full", carrierCode |-> "6E", number |-> "123", departureAt |-> "T10",
    arrivalAt |-> "T12", segments |-> 1,
    price |-> [grandTotal |-> [kind |-> "numeric", num |-> P(200)], total |-> [kind |-> "absent", num |-> 0]]],
   [shape |-> "full", carrierCode |-> "EK", number |-> "500", departureAt |-> "T14",
    arrivalAt |-> "T18", segments |-> 2,
    price |-> [grandTotal |-> [kind |-> "absent", num |-> 0], total |-> [kind |-> "numeric", num |-> P(100)]]],
   [shape |-> "full", carrierCode |-> "6E", number |-> "123", departureAt |-> "T10",
    arrivalAt |-> "T12", segments |-> 1,
    price |-> [grandTotal |-> [kind |-> "text", num |-> 0], total |-> [kind |-> "absent", num |-> 0]]],
   [shape |-> "noSegments", carrierCode |-> Undefined, number |-> Undefined,
    departureAt |-> Undefined, arrivalAt |-> Undefined, segments |-> 0,
    price |-> [grandTotal |-> [kind |-> "absent", num |-> 0], total |-> [kind |-> "absent", num |-> 0]]]}

\* Offers of the SerpApi adapter (the definition exporting searchSerpLocations):
\* times present, price finite and positive, a Google Flights URL.
SerpOffers ==
  {[airline |-> "IndiGo", flightNumber |-> <<"6E", "123">>, departTime |-> "T10",
    arrivalTime |-> "T12", nonstop |-> TRUE, stops |-> 0, price |-> P(180), currency |-> "INR",
    bookingUrl |-> <<"google.com/travel/flights", "DEL", "DXB", "serp">>, carrierCode |-> "6E"]}

\* What a provider call can produce: a thrown error, or a list.
Failed == [kind |-> "fail", data |-> <<>>]
NotCalled == [kind |-> "none", data |-> <<>>]
AmadeusOutcomes == {Failed} \cup {[kind |-> "ok", data |-> d] : d \in SeqUpTo(RawOffers, MaxAmadeus)}
SerpOutcomes == {Failed} \cup {[kind |-> "ok", data |-> d] : d \in SeqUpTo(SerpOffers, MaxSerp)}

\* The provider's answers to the six flexible-date searches: all fail, all
\* empty, and a mix of every kind.
FlexWorlds ==
  LET one(r) == [kind |-> "ok", data |-> <<r>>]
      raw(shape, carrier) == CHOOSE r \in RawOffers : r.shape = shape /\ r.carrierCode = carrier
      priced(carrier) == CHOOSE r \in RawOffers : r.carrierCode = carrier /\ PriceOf(r.price) # NaN
      unpriced == CHOOSE r \in RawOffers : r.shape = "full" /\ PriceOf(r.price) = NaN
  IN  {[o \in {-3, -2, -1, 1, 2, 3} |-> Failed],
       [o \in {-3, -2, -1, 1, 2, 3} |-> [kind |-> "ok", data |-> <<>>]],
       [o \in {-3, -2, -1, 1, 2, 3} |->
          CASE o = -3 -> one(priced("EK"))
            [] o = -2 -> Failed
            [] o = -1 -> one(raw("noSegments", Undefined))
            [] o = 1 -> one(priced("6E"))
            [] o = 2 -> [kind |-> "ok", data |-> <<>>]
            [] o = 3 -> one(unpriced)]}

\* The request before it arrives.
IdleRequest ==
  [pc |-> "idle", originCode |-> "", destinationCode |-> "", departureDate |-> NoDate,
   flexibleDates |-> FALSE, currency |-> "INR", today |-> [day |-> 0, pm |-> FALSE],
   amadeus |-> NotCalled, serp |-> NotCalled, flightsAmadeus |-> <<>>, flightsSerp |-> <<>>,
   merged |-> <<>>, flights |-> <<>>, stats |-> None, snapshot |-> None, model |-> Null,
   flexSummary |-> <<>>, ops |-> {}, errors |-> {}, response |-> None]

\* res.status(code).json({error}) and res.json({flights, model, flexibleDates}).
ErrorResponse(code) == [status |-> code, flights |-> <<>>, model |-> Null, flexibleDates |-> <<>>]
OkResponse(flights, model, flexSummary) ==
  [status |-> 200, flights |-> flights, model |-> model, flexibleDates |-> flexSummary]

\* The validation at the top of the handler, for one-way requests: the
\* status it answers, or 0 when the request goes on.
Validate(originCode, destinationCode, departureDate, c) ==
  IF originCode = "" \/ destinationCode = "" THEN 400
  ELSE IF originCode = destinationCode THEN 400
  ELSE IF departureDate = NoDate THEN 400
  ELSE IF JsLt(Midnight(departureDate), Midnight(c.day)) THEN 400
  ELSE 0

\* The answer when dedupeFlights leaves no offer.
EarlyAnswer_fallbackModel(deduped) ==
  OkResponse(<<>>, [action |-> "NO_SIGNAL", confidence |-> 40], <<>>)
EarlyAnswer(deduped) == OkResponse(<<>>, Null, <<>>)

\* What the catch around a provider call does with the error: go on with
\* that provider's list left empty.
ProviderCatch_rethrow(provider) == "throw"
ProviderCatch(provider) == "continue"

\* What the catch of recordPriceHistory and of updateSeasonalStats does with
\* the error of a statement: log it and return.
StorageCatch_rethrow(statement) == "throw"
StorageCatch(statement) == "return"

\* [...flightsAmadeus, ...flightsSerp]
Merge(flightsAmadeus, flightsSerp) == flightsAmadeus \o flightsSerp

\* flightsSerp.find(f => f.bookingUrl && f.bookingUrl.includes('google.com'))?.bookingUrl,
\* <<>> when there is none.
IncludesGoogle(url) == url # <<>> /\ url[1] \in {"google.com/search", "google.com/travel/flights", "google.com/flights"}
RECURSIVE SerpSearchUrl(_)
SerpSearchUrl(flightsSerp) ==
  IF flightsSerp = <<>> THEN <<>>
  ELSE IF IncludesGoogle(flightsSerp[1].bookingUrl) THEN flightsSerp[1].bookingUrl
  ELSE SerpSearchUrl(Tail(flightsSerp))

\* The overwrite done whether or not SerpApi gave a URL.
WithSearchUrl_unconditional(flights, serpSearchUrl) ==
  [i \in DOMAIN flights |-> [flights[i] EXCEPT !.bookingUrl = serpSearchUrl]]

\* flights.forEach(f => { f.bookingUrl = serpSearchUrl }) when there is one.
WithSearchUrl(flights, serpSearchUrl) ==
  IF serpSearchUrl = <<>> THEN flights
  ELSE [i \in DOMAIN flights |-> [flights[i] EXCEPT !.bookingUrl = serpSearchUrl]]

\* Math.round((depDate - today) / day) with today = new Date(), the clock:
\* in the afternoon the difference is rounded down to the next whole day.
DiffDays(departureDate, c) == JsSub(departureDate, c.day + (IF c.pm THEN 1 ELSE 0))

\* recordPriceHistory up to its first await: the row it will insert.
FinitePrices(flights) == SelectSeq(PricesOf(flights), IsFinite)
Snapshot(a, c) ==
  [origin |-> a.origin, destination |-> a.destination, departure_date |-> a.departureDate,
   search_date |-> c.day, days_until_departure |-> DiffDays(a.departureDate, c),
   min_price |-> MathMin(FinitePrices(a.flights)),
   avg_price |-> JsDiv(SumSeq(FinitePrices(a.flights)), Len(FinitePrices(a.flights))),
   max_price |-> MathMax(FinitePrices(a.flights)),
   currency |-> a.currency, created_at |-> Timestamp(c)]

\* ... and the statement it awaits first, if any.
RecordEntry(flights, e) ==
  IF ~ e.DATABASE_URL THEN "advice"
  ELSE IF flights = <<>> THEN "advice"
  ELSE IF FinitePrices(flights) = <<>> THEN "advice"
  ELSE IF e.build = "part_004" THEN "prune"
  ELSE "insert"

\* The retention DELETE with an inclusive cutoff: rows exactly 90 days old go too.
Prune_inclusive(table, c) ==
  LET Kept(r) == ~ (r.search_date <= c.day - HistoryDays) IN SelectSeq(table, Kept)

\* DELETE FROM price_history WHERE search_date < CURRENT_DATE - INTERVAL '90 days'
Prune(table, c) ==
  LET Kept(r) == ~ (r.search_date < c.day - HistoryDays) IN SelectSeq(table, Kept)

\* After the INSERT: part_004 goes on to updateSeasonalStats.
AfterInsert(snapshot, e) ==
  IF e.build # "part_004" THEN "advice"
  ELSE LET entry == UpdateEntry([daysUntilDeparture |-> snapshot.days_until_departure], e) IN
       IF entry = "delete" THEN "seasonalDelete"
       ELSE IF entry = "upsert" THEN "seasonalUpsert"
       ELSE "advice"

\* The argument recordPriceHistory gives updateSeasonalStats.
SeasonalCall(snapshot) ==
  [origin |-> snapshot.origin, destination |-> snapshot.destination,
   departureDate |-> snapshot.departure_date, avgPrice |-> snapshot.avg_price,
   daysUntilDeparture |-> snapshot.days_until_departure]

\* Tables left by earlier searches: a bucket of the searched month with a
\* rising trend, and snapshots 91 and 90 days old.
EarlierBucket ==
  [origin |-> "DEL", destination |-> "DXB", month |-> MonthOf(SearchDay),
   total_points |-> 10, far_sum |-> P(1000), far_count |-> 5, near_sum |-> P(1380),
   near_count |-> 5, last_updated |-> Timestamp([day |-> SearchDay - 1, pm |-> TRUE])]
EarlierSnapshot(age) ==
  [origin |-> "DEL", destination |-> "DXB", departure_date |-> SearchDay + 5,
   search_date |-> SearchDay - age, days_until_departure |-> age + 5,
   min_price |-> P(150), avg_price |-> P(160), max_price |-> P(170), currency |-> "INR",
   created_at |-> Timestamp([day |-> SearchDay - age, pm |-> FALSE])]

Init ==
  /\ req = IdleRequest
  /\ env \in [DATABASE_URL : BOOLEAN, build : {"server", "part_004"}]
  /\ now \in [day : {SearchDay}, pm : BOOLEAN]
  /\ seasonal_stats \in {{}, {EarlierBucket}}
  /\ price_history = <<EarlierSnapshot(HistoryDays + 1), EarlierSnapshot(HistoryDays)>>
  /\ arg = None /\ result = None /\ hist = None /\ calls = <<>>

\* The request arrives: validation, and the clock read into today.
SearchBegin ==
  /\ req.pc = "idle"
  /\ \E originCode \in {"DEL", ""}, destinationCode \in {"DXB", "DEL"},
        departureDate \in SearchDates \cup {NoDate}, flexibleDates \in BOOLEAN :
       LET code == Validate(originCode, destinationCode, departureDate, now)
           r == [req EXCEPT !.originCode = originCode, !.destinationCode = destinationCode,
                            !.departureDate = departureDate, !.flexibleDates = flexibleDates,
                            !.today = now]
       IN  req' = IF code # 0
                  THEN [r EXCEPT !.pc = "done", !.response = ErrorResponse(code)]
                  ELSE [r EXCEPT !.pc = "amadeus"]
  /\ UNCHANGED <<arg, result, hist, price_history, seasonal_stats, now, calls, env>>

\* await searchFlights(...) settles: the offers are normalised, or the error is caught.
SearchAmadeus ==
  /\ req.pc = "amadeus"
  /\ \E outcome \in AmadeusOutcomes :
       req' = IF outcome.kind = "fail" /\ ProviderCatch("amadeus") = "throw"
              THEN [req EXCEPT !.pc = "done", !.amadeus = outcome, !.response = ErrorResponse(500)]
              ELSE [req EXCEPT !.pc = "serp", !.amadeus = outcome,
                               !.flightsAmadeus =
                                 IF outcome.kind = "fail" THEN <<>>
                                 ELSE NormalizeAll(outcome.data, req.originCode,
                                                   req.destinationCode, req.currency)]
  /\ UNCHANGED <<arg, result, hist, price_history, seasonal_stats, now, calls, env>>

\* await searchSerpFlights(...) settles, and the handler runs to its next
\* await: merge, dedupe, the early answer on an empty list, the shared
\* booking URL, the statistics, and recordPriceHistory up to its first statement.
SearchSerp ==
  /\ req.pc = "serp"
  /\ \E outcome \in SerpOutcomes :
       LET flightsSerp == IF outcome.kind = "fail" THEN <<>> ELSE outcome.data
           merged == Merge(req.flightsAmadeus, flightsSerp)
           deduped == dedupeFlights(merged)
           flights == WithSearchUrl(deduped, SerpSearchUrl(flightsSerp))
           r == [req EXCEPT !.serp = outcome, !.flightsSerp = flightsSerp, !.merged = merged]
       IN  req' = IF outcome.kind = "fail" /\ ProviderCatch("serp") = "throw"
                  THEN [req EXCEPT !.pc = "done", !.serp = outcome, !.response = ErrorResponse(500)]
                  ELSE IF deduped = <<>>
                  THEN [r EXCEPT !.pc = "done", !.response = EarlyAnswer(deduped)]
                  ELSE [r EXCEPT !.pc = RecordEntry(flights, env),
                                 !.flights = flights,
                                 !.stats = Stats(flights),
                                 !.snapshot =
                                   IF RecordEntry(flights, env) = "advice" THEN None
                                   ELSE Snapshot([origin |-> req.originCode,
                                                  destination |-> req.destinationCode,
                                                  departureDate |-> req.departureDate,
                                                  currency |-> req.currency,
                                                  flights |-> flights], now)]
  /\ UNCHANGED <<arg, result, hist, price_history, seasonal_stats, now, calls, env>>

\* The retention DELETE of price_history executes.
SearchPrune ==
  /\ req.pc = "prune"
  /\ price_history' = Prune(price_history, now)
  /\ req' = [req EXCEPT !.pc = "insert", !.ops = @ \cup {"prune"}]
  /\ UNCHANGED <<arg, result, hist, seasonal_stats, now, calls, env>>

\* The INSERT of the snapshot executes.
SearchInsert ==
  /\ req.pc = "insert"
  /\ price_history' = Append(price_history, req.snapshot)
  /\ req' = [req EXCEPT !.pc = AfterInsert(req.snapshot, env), !.ops = @ \cup {"insert"}]
  /\ UNCHANGED <<arg, result, hist, seasonal_stats, now, calls, env>>

\* updateSeasonalStats: the DELETE of stale buckets executes.
SearchSeasonalDelete ==
  /\ req.pc = "seasonalDelete"
  /\ seasonal_stats' = DeleteStale(seasonal_stats, now)
  /\ req' = [req EXCEPT !.pc = "seasonalUpsert", !.ops = @ \cup {"seasonalDelete"}]
  /\ UNCHANGED <<arg, result, hist, price_history, now, calls, env>>

\* updateSeasonalStats: the upsert executes.
SearchSeasonalUpsert ==
  /\ req.pc = "seasonalUpsert"
  /\ seasonal_stats' = Upsert(seasonal_stats, UpsertValues(SeasonalCall(req.snapshot)), now)
  /\ req' = [req EXCEPT !.pc = "advice", !.ops = @ \cup {"seasonalUpsert"}]
  /\ UNCHANGED <<arg, result, hist, price_history, now, calls, env>>

\* A statement of recordPriceHistory or updateSeasonalStats throws: the
\* catch returns, nothing after the statement runs, and the handler goes on.
SearchStorageFail ==
  /\ req.pc \in {"prune", "insert", "seasonalDelete", "seasonalUpsert"}
  /\ req' = IF StorageCatch(req.pc) = "throw"
            THEN [req EXCEPT !.pc = "done", !.errors = @ \cup {req.pc},
                             !.response = ErrorResponse(500)]
            ELSE [req EXCEPT !.pc = "advice", !.errors = @ \cup {req.pc}]
  /\ UNCHANGED <<arg, result, hist, price_history, seasonal_stats, now, calls, env>>

\* await blendedAdvice(...) settles (either definition; its SELECT succeeds
\* or throws), and the handler answers unless flexible dates were asked for.
SearchAdvice ==
  /\ req.pc = "advice"
  /\ \E definition \in {1, 2}, dbFails \in BOOLEAN :
       LET a == [origin |-> req.originCode, destination |-> req.destinationCode,
                 departureDate |-> req.departureDate, todayStr |-> req.today.day,
                 minPrice |-> req.stats.minPrice, avgPrice |-> req.stats.avgPrice,
                 maxPrice |-> req.stats.maxPrice, bestFlight |-> req.stats.bestFlight]
           model == IF definition = 1
                    THEN blendedAdvice(a, seasonal_stats, now, dbFails)
                    ELSE blendedAdvice2(a, seasonal_stats, now, dbFails)
       IN  req' = IF req.flexibleDates
                  THEN [req EXCEPT !.pc = "flex", !.model = model, !.ops = @ \cup {"select"}]
                  ELSE [req EXCEPT !.pc = "done", !.model = model, !.ops = @ \cup {"select"},
                                   !.response = OkResponse(req.flights, model, <<>>)]
  /\ UNCHANGED <<arg, result, hist, price_history, seasonal_stats, now, calls, env>>

\* await getFlexibleDateSummary(...) settles, and the handler answers.
SearchFlex ==
  /\ req.pc = "flex"
  /\ \E world \in FlexWorlds :
       LET flexSummary ==
             getFlexibleDateSummary([originCode |-> req.originCode,
                                     destinationCode |-> req.destinationCode,
                                     departureDate |-> req.departureDate,
                                     currency |-> req.currency,
                                     baseCheapest |-> req.stats.minPrice], world)
       IN  req' = [req EXCEPT !.pc = "done", !.flexSummary = flexSummary,
                              !.ops = @ \cup {"flexScan"},
                              !.response = OkResponse(req.flights, req.model, flexSummary)]
  /\ UNCHANGED <<arg, result, hist, price_history, seasonal_stats, now, calls, env>>

Next ==
  \/ SearchBegin
  \/ SearchAmadeus
  \/ SearchSerp
  \/ SearchPrune
  \/ SearchInsert
  \/ SearchSeasonalDelete
  \/ SearchSeasonalUpsert
  \/ SearchStorageFail
  \/ SearchAdvice
  \/ SearchFlex

Spec == Init /\ [][Next]_vars

\* The list a search must hand to dedupeFlights, given what the providers did.
OfferedBy(r) ==
  (IF r.amadeus.kind = "ok"
   THEN NormalizeAll(r.amadeus.data, r.originCode, r.destinationCode, r.currency) ELSE <<>>)
  \o (IF r.serp.kind = "ok" THEN r.serp.data ELSE <<>>)

\* Both provider calls of the search have settled.
Merged == req.serp.kind # "none"

\* C3: when the deduplicated list of a search is empty, the response is
\* flights = [], model = null, flexibleDates = [], and the search executes no
\* statement on price_history or seasonal_stats and no flexible-date scan:
\* no row of either table carries the time of this search.
C3_EmptySearch ==
  (Merged /\ dedupeFlights(req.merged) = <<>>) =>
    /\ req.pc = "done"
    /\ req.response = [status |-> 200, flights |-> <<>>, model |-> Null, flexibleDates |-> <<>>]
    /\ req.ops = {} /\ req.errors = {}
    /\ \A i \in DOMAIN price_history : price_history[i].created_at # Timestamp(req.today)
    /\ \A r \in seasonal_stats : r.last_updated # Timestamp(req.today)

\* Witness of C3: both providers failed, with a database configured and
\* flexible dates asked for, and the search has answered.
C3_Witness ==
  /\ req.pc = "done" /\ req.amadeus.kind = "fail" /\ req.serp.kind = "fail"
  /\ env.DATABASE_URL /\ req.flexibleDates
  /\ req.response.status = 200 /\ req.response.flights = <<>>

\* C4: a provider call that throws does not end the search: after a failed
\* Amadeus call the SerpApi call is still made, the list handed to
\* dedupeFlights is exactly the offers of the providers that succeeded (none
\* for one that failed), and the answer is a success.
C4_ProviderFailureIsolated ==
  /\ (req.amadeus.kind = "fail" /\ req.serp.kind = "none") => req.pc = "serp"
  /\ Merged => /\ req.merged = OfferedBy(req)
               /\ req.pc = "done" => req.response.status = 200

\* Witness of C4: Amadeus threw, SerpApi answered one offer, and the search
\* answered with it.
C4_Witness ==
  /\ req.pc = "done" /\ req.amadeus.kind = "fail" /\ req.serp.kind = "ok"
  /\ Len(req.merged) = 1 /\ req.response.status = 200 /\ Len(req.response.flights) = 1

\* C5: when the prune, the insert or a seasonal statement fails in a
\* non-empty search, the handler goes on to the advice, and the answer is a
\* success with the flights of the search and a model that is not null.
C5_StorageFailureSwallowed ==
  req.errors # {} =>
    /\ req.flights # <<>>
    /\ req.pc \in {"advice", "flex", "done"}
    /\ req.pc = "done" =>
         /\ req.response.status = 200
         /\ req.response.flights =
              WithSearchUrl(dedupeFlights(req.merged), SerpSearchUrl(req.flightsSerp))
         /\ req.response.model # Null

\* Witness of C5: the seasonal upsert failed after the prune and the insert
\* succeeded, and the search has answered with a model.
C5_Witness ==
  /\ req.pc = "done" /\ req.errors = {"seasonalUpsert"} /\ req.ops = {"prune", "insert", "seasonalDelete", "select"}
  /\ req.response.status = 200 /\ req.response.model # Null /\ req.response.flights # <<>>

\* C7: the statistics of every non-empty deduplicated list satisfy
\* minPrice <= avgPrice <= maxPrice, and bestFlight has the price minPrice
\* and is the first offer of the list with that price.
C7_StatsOrdered ==
  req.stats # None =>
    /\ JsLe(req.stats.minPrice, req.stats.avgPrice)
    /\ JsLe(req.stats.avgPrice, req.stats.maxPrice)
    /\ req.stats.bestFlight.price = req.stats.minPrice
    /\ \E i \in DOMAIN req.flights :
         /\ req.flights[i] = req.stats.bestFlight
         /\ \A j \in 1..(i - 1) : req.flights[j].price # req.stats.minPrice

(***************************************************************************)
(* The blended advice on its own                                           *)
(***************************************************************************)

\* The dates the search is made on: the departure day itself and 5, 15
\* and 31 days before it.
BlendTodays == {QueryRoute.departureDate - d : d \in {0, 5, 15, MaxDays - 1}}

\* Price statistics <<min, avg, max>>: the 100/104/120 scenario, a wide and
\* a narrow spread, an average near the maximum, and the statistics of a
\* search whose prices are all 0 or not numbers.
BlendStats == {<<100, 104, 120>>, <<100, 140, 200>>, <<100, 102, 104>>,
               <<100, 190, 200>>, <<0, 0, 0>>, <<NaN, NaN, NaN>>}

\* Buckets of the queried month, thin or well filled, fresh or stale.
BlendRows ==
  {r \in LearnedRows :
     /\ ReachableRow(r)
     /\ r.month = MonthOf(QueryRoute.departureDate)
     /\ r.far_count \in {1, MaxCount} /\ r.near_count \in {1, MaxCount}
     /\ r.last_updated # Timestamp(QueryClock) - 2 * SeasonalDays}

\* The best offer handed in: the cheapest one the search found.
BlendBestFlight ==
  normalizeFlightOffer(CHOOSE o \in RawOffers : o.carrierCode = "EK", "DEL", "DXB", "INR")

\* Arguments of a blendedAdvice call; internalError: something inside the
\* try block throws.
BlendArgs ==
  {[kind |-> "search", origin |-> QueryRoute.origin, destination |-> QueryRoute.destination,
    departureDate |-> QueryRoute.departureDate, todayStr |-> t,
    minPrice |-> s[1], avgPrice |-> s[2], maxPrice |-> s[3],
    bestFlight |-> BlendBestFlight, dbFails |-> f, internalError |-> e] :
     t \in BlendTodays, s \in BlendStats, f \in BOOLEAN, e \in BOOLEAN}

\* Pairs of sub-results of the shapes the two advisors return, handed to the
\* combination step directly.
BlendPairs ==
  {[kind |-> "pair",
    heuristic |-> [action |-> ha, confidence |-> hc],
    learning |-> [action |-> la, confidence |-> lc, hasHistory |-> TRUE]] :
     ha \in {"BOOK", "WAIT"}, hc \in {55, 60, 65, 70, 75, 80, 85},
     la \in {"BOOK", "WAIT"}, lc \in {65, 70, 75}}

InitBlend ==
  /\ arg \in BlendArgs \cup BlendPairs
  /\ seasonal_stats \in IF arg.kind = "search" THEN {{}} \cup {{r} : r \in BlendRows} ELSE {{}}
  /\ now = QueryClock
  /\ result = None
  /\ req = None /\ hist = None /\ price_history = <<>> /\ calls = <<>> /\ env = DefaultEnv

CallBlendedAdvice ==
  /\ result = None /\ arg.kind = "search"
  /\ result' = [fn |-> "blendedAdvice",
                out |-> IF arg.internalError THEN blendedAdviceCatch(arg)
                        ELSE blendedAdvice(arg, seasonal_stats, now, arg.dbFails)]
  /\ UNCHANGED <<arg, req, hist, price_history, seasonal_stats, now, calls, env>>

CallBlendedAdvice2 ==
  /\ result = None /\ arg.kind = "search" /\ ~ arg.internalError
  /\ result' = [fn |-> "blendedAdvice2",
                out |-> blendedAdvice2(arg, seasonal_stats, now, arg.dbFails)]
  /\ UNCHANGED <<arg, req, hist, price_history, seasonal_stats, now, calls, env>>

CallBlend ==
  /\ result = None /\ arg.kind = "pair"
  /\ result' = [fn |-> "blendedAdvice",
                out |-> Blend(arg.heuristic, arg.learning) @@
                        [heuristic |-> arg.heuristic, learning |-> arg.learning,
                         bestDeal |-> Null]]
  /\ UNCHANGED <<arg, req, hist, price_history, seasonal_stats, now, calls, env>>

\* The same pair handed to the second definition's combination step.
CallBlend2 ==
  /\ result = None /\ arg.kind = "pair"
  /\ result' = [fn |-> "blendedAdvice2",
                out |-> Blend2(arg.heuristic, arg.learning) @@
                        [heuristic |-> arg.heuristic, learning |-> arg.learning,
                         bestDeal |-> Null]]
  /\ UNCHANGED <<arg, req, hist, price_history, seasonal_stats, now, calls, env>>

NextBlend == CallBlendedAdvice \/ CallBlendedAdvice2 \/ CallBlend \/ CallBlend2

SpecBlend == InitBlend /\ [][NextBlend]_vars

\* The result of a completed first-definition blend of two sub-results.
Blended ==
  result # None /\ result.fn = "blendedAdvice" /\ result.out.heuristic # Null

\* C14: in the first blendedAdvice, two BOOK sub-results give BOOK with
\* min(95, round(average) + 10) and two WAIT sub-results give WAIT with
\* min(90, round(average) + 5).
C14_AgreementBonus ==
  Blended =>
    LET h == result.out.heuristic
        l == result.out.learning
        avg == RoundHalf(h.confidence + l.confidence, 0)
    IN  /\ (h.action = "BOOK" /\ l.action = "BOOK") =>
             (result.out.action = "BOOK" /\ result.out.confidence = Min2(95, avg + 10))
        /\ (h.action = "WAIT" /\ l.action = "WAIT") =>
             (result.out.action = "WAIT" /\ result.out.confidence = Min2(90, avg + 5))

\* A search 5 days out over 100/104/120 with a bucket rising 38 %: BOOK(85)
\* and BOOK(75) blend into BOOK(90).
C14_Witness ==
  /\ Blended /\ arg.kind = "search"
  /\ result.out.heuristic.action = "BOOK" /\ result.out.heuristic.confidence = 85
  /\ result.out.learning.action = "BOOK" /\ result.out.learning.confidence = 75
  /\ result.out.action = "BOOK" /\ result.out.confidence = 90

\* C15: in the first blendedAdvice, when one sub-result says BOOK and the
\* other WAIT, the action is the heuristic's and the confidence is
\* round(average) - 10; BOOK(80) against WAIT(70) gives BOOK(65).
C15_DisagreementSoftened ==
  Blended =>
    LET h == result.out.heuristic
        l == result.out.learning
    IN  /\ {h.action, l.action} = {"BOOK", "WAIT"} =>
             /\ result.out.action = h.action
             /\ result.out.confidence = RoundHalf(h.confidence + l.confidence, 0) - 10
        /\ (h = [action |-> "BOOK", confidence |-> 80] /\ l.action = "WAIT" /\ l.confidence = 70) =>
             (result.out.action = "BOOK" /\ result.out.confidence = 65)

\* BOOK(80) against WAIT(70) blended into BOOK(65).
C15_Witness ==
  /\ Blended
  /\ result.out.heuristic.action = "BOOK" /\ result.out.heuristic.confidence = 80
  /\ result.out.learning.action = "WAIT" /\ result.out.learning.confidence = 70
  /\ result.out.action = "BOOK" /\ result.out.confidence = 65

\* A search whose two advisors disagree: BOOK(85) close to departure
\* against a falling bucket's WAIT(75) gives BOOK(70).
C15_WitnessSearch ==
  /\ Blended /\ arg.kind = "search"
  /\ result.out.heuristic.action = "BOOK" /\ result.out.learning.action = "WAIT"
  /\ result.out.action = "BOOK" /\ result.out.confidence = 70

\* C16: in the first blendedAdvice, when exactly one sub-result is BOOK or
\* WAIT and the other is NO_SIGNAL, the action is the opinionated one's and
\* the confidence is that sub-result's confidence, unchanged.
C16_SingleOpinionKept ==
  (Blended /\ arg.kind = "search") =>
    LET h == result.out.heuristic
        l == result.out.learning
    IN  /\ (h.action # "NO_SIGNAL" /\ l.action = "NO_SIGNAL") =>
             (result.out.action = h.action /\ result.out.confidence = h.confidence)
        /\ (h.action = "NO_SIGNAL" /\ l.action # "NO_SIGNAL") =>
             (result.out.action = l.action /\ result.out.confidence = l.confidence)

\* The action alone does follow the one opinionated sub-result.
C16_ActionFollowsOpinion ==
  (Blended /\ arg.kind = "search") =>
    LET h == result.out.heuristic
        l == result.out.learning
    IN  /\ (h.action # "NO_SIGNAL" /\ l.action = "NO_SIGNAL") => result.out.action = h.action
        /\ (h.action = "NO_SIGNAL" /\ l.action # "NO_SIGNAL") => result.out.action = l.action

\* C17: for every pair of sub-results the advisors produce, and on the
\* internal-error fallback, the confidence returned by either definition of
\* blendedAdvice is an integer between 0 and 95.
C17_ConfidenceInRange ==
  (result # None /\ arg.kind = "search") => result.out.confidence \in 0..95

\* The first definition's catch answered: NO_SIGNAL with confidence 40.
C17_Witness ==
  /\ result # None /\ arg.kind = "search" /\ arg.internalError
  /\ result.fn = "blendedAdvice" /\ result.out.heuristic = Null
  /\ result.out.action = "NO_SIGNAL" /\ result.out.confidence = 40

\* The largest confidences the two definitions reach: 90 and 85.
C17_WitnessHighest ==
  /\ result # None /\ arg.kind = "search"
  /\ \/ result.fn = "blendedAdvice" /\ result.out.confidence = 90
     \/ result.fn = "blendedAdvice2" /\ result.out.confidence = 85

\* C30: given the same pair of sub-results, the two definitions of
\* blendedAdvice return the same action and the same confidence.
C30_OnePolicy ==
  (result # None /\ arg.kind = "pair") =>
    LET first == Blend(arg.heuristic, arg.learning)
        second == Blend2(arg.heuristic, arg.learning)
    IN  /\ result.out.action = first.action /\ result.out.confidence = first.confidence
        /\ result.out.action = second.action /\ result.out.confidence = second.confidence

\* The pairs on which the two definitions do agree: BOOK(85) with
\* BOOK(75) gives BOOK(90) in both.
C30_AgreeOnOnePair ==
  (result # None /\ arg.kind = "pair"
     /\ arg.heuristic = [action |-> "BOOK", confidence |-> 85]
     /\ arg.learning.action = "BOOK" /\ arg.learning.confidence = 75) =>
    (result.out.action = "BOOK" /\ result.out.confidence = 90)

(***************************************************************************)
(* The flexible-date scan on its own                                       *)
(***************************************************************************)

\* What searchFlights can answer for one offset: a failure, no offers, one
\* offer without segments, one priced offer, one offer without a numeric
\* price, two priced offers.
FlexOutcomes ==
  LET skipped == CHOOSE r \in RawOffers : r.shape = "noSegments"
      priced(carrier) == CHOOSE r \in RawOffers : r.carrierCode = carrier /\ PriceOf(r.price) # NaN
      unpriced == CHOOSE r \in RawOffers : r.shape = "full" /\ PriceOf(r.price) = NaN
  IN  {Failed, [kind |-> "ok", data |-> <<>>],
       [kind |-> "ok", data |-> <<skipped>>],
       [kind |-> "ok", data |-> <<priced("EK")>>],
       [kind |-> "ok", data |-> <<unpriced>>],
       [kind |-> "ok", data |-> <<priced("6E"), priced("EK")>>]}

OffsetSet == {FlexOffsets[i] : i \in 1..Len(FlexOffsets)}

InitFlex ==
  /\ arg \in [originCode : {"DEL"}, destinationCode : {"DXB"}, departureDate : {SearchDay + 10},
              currency : {"INR"}, baseCheapest : {P(100)},
              world : [OffsetSet -> FlexOutcomes]]
  /\ result = None
  /\ req = None /\ hist = None /\ price_history = <<>> /\ seasonal_stats = {}
  /\ now = [day |-> SearchDay, pm |-> FALSE] /\ calls = <<>> /\ env = DefaultEnv

CallGetFlexibleDateSummary ==
  /\ result = None
  /\ result' = [fn |-> "getFlexibleDateSummary", out |-> getFlexibleDateSummary(arg, arg.world)]
  /\ UNCHANGED <<arg, req, hist, price_history, seasonal_stats, now, calls, env>>

SpecFlex == InitFlex /\ [][CallGetFlexibleDateSummary]_vars

\* An outcome with at least one offer that normalizeFlightOffer keeps.
Usable(outcome) ==
  /\ outcome.kind = "ok"
  /\ NormalizeAll(outcome.data, "DEL", "DXB", "INR") # <<>>

C21_NoPartialOffer ==
  \A i \in DOMAIN req.flightsAmadeus :
    LET f == req.flightsAmadeus[i] IN
    /\ f.carrierCode # Undefined
    /\ f.departTime # Undefined /\ f.arrivalTime # Undefined
    /\ IsFinite(f.price)

\* The part that holds: an offer without segments is dropped alone, the
\* other offers of the batch are kept.
C21_OnlyTheOfferIsDropped ==
  (req.amadeus.kind = "ok" /\ req.pc # "amadeus") =>
    /\ Len(req.flightsAmadeus) =
         Cardinality({i \in DOMAIN req.amadeus.data : req.amadeus.data[i].shape = "full"})
    /\ req.response = None \/ req.response.status # 500

\* The search answered 200 with at least one deduplicated offer.
CompletedWithOffers ==
  req.pc = "done" /\ req.response.status = 200 /\ req.flights # <<>>

\* The snapshots this search has appended.
OwnSnapshots == {i \in DOMAIN price_history : price_history[i].search_date = req.today.day}

\* Every row of price_history is still there, unchanged, after the step,
\* or it is gone and its search date is more than 90 days old.
SnapshotsKeptOrPruned ==
  \A i \in DOMAIN price_history :
    \/ \E j \in DOMAIN price_history' : price_history'[j] = price_history[i]
    \/ price_history[i].search_date < now.day - HistoryDays

\* C22: every completed search with at least one deduplicated offer
\* appends exactly one snapshot, and a snapshot once inserted is never
\* changed: it can only be removed by the prune of rows older than 90 days.
C22_OneSnapshotPerSearch ==
  /\ [](CompletedWithOffers => Cardinality(OwnSnapshots) = 1)
  /\ [][SnapshotsKeptOrPruned]_vars

\* C22 as the code has it: the snapshot is appended exactly when the database is
\* configured, some offer has a finite price and neither the prune nor the
\* insert fails, and never more than once; otherwise none is appended.
C22_OneSnapshotWhenStored ==
  /\ [](CompletedWithOffers =>
          Cardinality(OwnSnapshots) =
            IF /\ env.DATABASE_URL
               /\ FinitePrices(req.flights) # <<>>
               /\ req.errors \cap {"prune", "insert"} = {}
            THEN 1 ELSE 0)
  /\ [](Cardinality(OwnSnapshots) <= 1)
  /\ [][SnapshotsKeptOrPruned]_vars

\* A completed search whose row was appended after the prune removed the
\* 91-day-old row and kept the 90-day-old one.
C22_Witness ==
  /\ CompletedWithOffers
  /\ price_history = <<EarlierSnapshot(HistoryDays), req.snapshot>>
  /\ "prune" \in req.ops /\ "insert" \in req.ops

\* The search answered 200 with offers.
AnsweredWithOffers ==
  req.pc = "done" /\ req.response.status = 200 /\ req.response.flights # <<>>

\* C27: every offer of the response is, field for field, an offer as
\* normalizeFlightOffer or the SerpApi adapter produced it.
C27_OfferUnchanged ==
  AnsweredWithOffers =>
    \A i \in DOMAIN req.response.flights :
      \E j \in DOMAIN req.merged : req.response.flights[i] = req.merged[j]

\* C27 except for bookingUrl: every offer of the response is a produced
\* offer in all its other fields, and its bookingUrl is the produced one
\* unless SerpApi gave an offer with a google.com URL, which then replaces
\* the bookingUrl of every offer.
C27_OfferUnchangedButUrl ==
  AnsweredWithOffers =>
    LET shared == SerpSearchUrl(req.flightsSerp) IN
    \A i \in DOMAIN req.response.flights :
      \E j \in DOMAIN req.merged :
        /\ [req.response.flights[i] EXCEPT !.bookingUrl = req.merged[j].bookingUrl] = req.merged[j]
        /\ req.response.flights[i].bookingUrl =
             IF shared = <<>> THEN req.merged[j].bookingUrl ELSE shared

\* An Amadeus offer answered with SerpApi's URL in place of its own, and
\* everything else as normalized.
C27_Witness ==
  /\ AnsweredWithOffers
  /\ \E i \in DOMAIN req.response.flights : \E j \in DOMAIN req.flightsAmadeus :
       /\ req.response.flights[i].bookingUrl = SerpSearchUrl(req.flightsSerp)
       /\ req.response.flights[i].bookingUrl # req.flightsAmadeus[j].bookingUrl
       /\ [req.response.flights[i] EXCEPT !.bookingUrl = req.flightsAmadeus[j].bookingUrl] =
            req.flightsAmadeus[j]

\* C29: the days-until-departure written to the snapshot and passed to the
\* seasonal update equals the one the heuristic advisor is given, the
\* calendar-day difference of departure date and current date, whatever
\* the time of day of the search.
C29_SameDaysEverywhere ==
  (req.snapshot # None) =>
    /\ req.snapshot.days_until_departure = DaysBetween(req.departureDate, req.today.day)
    /\ SeasonalCall(req.snapshot).daysUntilDeparture = DaysBetween(req.departureDate, req.today.day)

\* In the morning the two agree.
C29_SameDaysBeforeNoon ==
  (req.snapshot # None /\ ~ now.pm) =>
    req.snapshot.days_until_departure = DaysBetween(req.departureDate, req.today.day)

(***************************************************************************)
(* POST /api/flights when a call never completes                           *)
(***************************************************************************)

\* The awaits of the handler, by the position the handler waits at: the two
\* provider calls, the history prune and insert, the seasonal upsert, and
\* blendedAdvice with its seasonal query.
Awaits == {"amadeus", "serp", "prune", "insert", "seasonalUpsert", "advice"}

\* arg.pending names the await whose promise never settles ("none": all
\* settle).  No axios call and no pool query is given a timeout, so nothing
\* ends such a wait.
InitPending ==
  /\ req = IdleRequest
  /\ env = DefaultEnv
  /\ now = [day |-> SearchDay, pm |-> FALSE]
  /\ seasonal_stats = {EarlierBucket}
  /\ price_history = <<EarlierSnapshot(HistoryDays + 1), EarlierSnapshot(HistoryDays)>>
  /\ arg \in [pending : Awaits \cup {"none"}]
  /\ result = None /\ hist = None /\ calls = <<>>

\* The awaited call settles, with a result or an error.
Settles == req.pc # arg.pending

NextPending == Settles /\ Next

\* The event loop runs every continuation whose promise has settled.
SpecPending == InitPending /\ [][NextPending]_vars /\ WF_vars(NextPending)

\* C23: every request that has arrived is eventually answered, even when
\* one of its provider or storage calls never completes.
C23_AlwaysAnswered == (req.pc # "idle") ~> (req.response # None)

\* When every call settles the request is answered.
C23_AnsweredWhenAllSettle == (req.pc # "idle" /\ arg.pending = "none") ~> (req.response # None)

(***************************************************************************)
(* searchAllProviders (aggregator.js, part_003)                            *)
(***************************************************************************)

\* The aggregator's own dedupeFlights: the key takes the fields as they are
\* and a later offer replaces a stored one when f.price < stored price.
DedupeVisitAggregator(seen, f) ==
  LET key == <<f.carrierCode, f.flightNumber, f.departTime, f.arrivalTime>>
      i == MapIndex(seen, key)
  IN  IF i = 0 \/ JsLt(f.price, seen[i].value.price) THEN MapSet(seen, key, f) ELSE seen

RECURSIVE DedupeFoldAggregator(_)
DedupeFoldAggregator(flights) ==
  IF flights = <<>> THEN <<>>
  ELSE DedupeVisitAggregator(DedupeFoldAggregator(SubSeq(flights, 1, Len(flights) - 1)),
                             flights[Len(flights)])

dedupeFlightsAggregator(flights) == MapValues(DedupeFoldAggregator(flights))

\* Offers of the Skyscanner adapter: price > 0 (its own filter); the first
\* two share their key.
SkyscannerOffers ==
  <<[airline |-> "IndiGo", flightNumber |-> <<"6E", "123">>, departTime |-> "T10",
     arrivalTime |-> "T12", nonstop |-> TRUE, stops |-> 0, price |-> P(190), currency |-> "INR",
     bookingUrl |-> <<"skyscanner.com", "DEL", "DXB", "a">>, carrierCode |-> "6E"],
    [airline |-> "IndiGo", flightNumber |-> <<"6E", "123">>, departTime |-> "T10",
     arrivalTime |-> "T12", nonstop |-> TRUE, stops |-> 0, price |-> P(170), currency |-> "INR",
     bookingUrl |-> <<"skyscanner.com", "DEL", "DXB", "b">>, carrierCode |-> "6E"]>>

SkyscannerOutcomes ==
  {Failed} \cup {[kind |-> "ok", data |-> SubSeq(SkyscannerOffers, 1, n)] : n \in 0..2}

Providers == <<"amadeus", "skyscanner", "serp">>

\* What a provider adds to flights.  exported: whether require('./server')
\* has normalizeFlightOffer; without it every Amadeus offer maps to null.
Yield(world, p) ==
  LET outcome == world[p] IN
  IF outcome.kind = "fail" THEN <<>>
  ELSE IF p = "amadeus"
  THEN IF world.exported THEN NormalizeAll(outcome.data, "DEL", "DXB", "INR") ELSE <<>>
  ELSE outcome.data

InitAggregator ==
  /\ arg \in [amadeus : AmadeusOutcomes, skyscanner : SkyscannerOutcomes,
              serp : SerpOutcomes, exported : BOOLEAN]
  /\ result = [pc |-> 1, flights |-> <<>>, queried |-> <<>>, out |-> <<>>]
  /\ req = None /\ hist = None /\ price_history = <<>> /\ seasonal_stats = {}
  /\ now = [day |-> SearchDay, pm |-> FALSE] /\ calls = <<>> /\ env = DefaultEnv

\* The chain without its early returns: every provider is queried and the
\* offers accumulate.
QueryProvider_accumulate(n) ==
  /\ result.pc = n
  /\ LET flights == result.flights \o Yield(arg, Providers[n]) IN
     result' = [pc |-> IF n = Len(Providers) THEN 0 ELSE n + 1,
                flights |-> flights,
                queried |-> Append(result.queried, Providers[n]),
                out |-> IF n = Len(Providers) THEN dedupeFlightsAggregator(flights) ELSE <<>>]
  /\ UNCHANGED <<arg, req, hist, price_history, seasonal_stats, now, calls, env>>

\* The await of provider number n settles and the function runs to its next
\* await or to its return.
QueryProvider(n) ==
  /\ result.pc = n
  /\ LET flights == result.flights \o Yield(arg, Providers[n]) IN
     result' = [pc |-> IF flights # <<>> \/ n = Len(Providers) THEN 0 ELSE n + 1,
                flights |-> flights,
                queried |-> Append(result.queried, Providers[n]),
                out |-> IF flights # <<>> \/ n = Len(Providers)
                        THEN dedupeFlightsAggregator(flights) ELSE <<>>]
  /\ UNCHANGED <<arg, req, hist, price_history, seasonal_stats, now, calls, env>>

QueryAmadeus == QueryProvider(1)
QuerySkyscanner == QueryProvider(2)
QuerySerp == QueryProvider(3)

NextAggregator == QueryAmadeus \/ QuerySkyscanner \/ QuerySerp

SpecAggregator == InitAggregator /\ [][NextAggregator]_vars

\* What the provider handed over: nothing if it failed, else its offers
\* (for Amadeus, those the normalizer keeps).
Offered(p) ==
  IF arg[p].kind = "fail" THEN <<>>
  ELSE IF p = "amadeus"
  THEN IF arg.exported THEN NormalizeAll(arg.amadeus.data, "DEL", "DXB", "INR") ELSE <<>>
  ELSE arg[p].data

\* C26: the providers are queried in the order Amadeus, Skyscanner,
\* SerpApi; a later one only after every earlier one failed or gave no
\* offer; a failure does not end the chain; and the result is the
\* deduplicated offers of the first provider that gave any, else empty.
C26_ProviderChain ==
  LET q == result.queried IN
  /\ Len(q) <= 3 /\ \A i \in DOMAIN q : q[i] = Providers[i]
  /\ \A i \in DOMAIN q : \A j \in 1..(i - 1) : Offered(q[j]) = <<>>
  /\ (result.pc # 0 /\ q # <<>>) => (Offered(q[Len(q)]) = <<>> /\ result.pc = Len(q) + 1)
  /\ result.pc = 0 =>
       /\ Len(q) = 3 \/ Offered(q[Len(q)]) # <<>>
       /\ result.out = dedupeFlightsAggregator(Offered(q[Len(q)]))

\* Amadeus failed, Skyscanner gave two offers of one key, SerpApi was not
\* asked, and the cheaper Skyscanner offer is the result.
C26_Witness ==
  /\ result.pc = 0 /\ arg.amadeus.kind = "fail" /\ Len(arg.skyscanner.data) = 2
  /\ result.queried = <<"amadeus", "skyscanner">>
  /\ result.out = <<SkyscannerOffers[2]>>

(***************************************************************************)
(* getAccessToken (amadeusClient.js)                                       *)
(***************************************************************************)

\* Clock ticks the calls are spread over, and the ticks a token stays
\* valid once 60 seconds are taken off expires_in.
MaxTime == 3
TokenLife == 2

\* result holds the module's cachedToken and tokenExpiry (0: null) and the
\* number of tokens the provider has issued; calls[p] is one call of
\* getAccessToken, now.day the clock.
InitToken ==
  /\ result = [cachedToken |-> 0, tokenExpiry |-> 0, issued |-> 0]
  /\ calls = [p \in 1..NumCalls |-> [pc |-> "idle", now |-> 0, token |-> 0]]
  /\ now = [day |-> 0, pm |-> FALSE]
  /\ arg = None /\ req = None /\ hist = None /\ price_history = <<>> /\ seasonal_stats = {}
  /\ env = DefaultEnv

\* The call runs to its return of the cached token or to its await of axios.post.
TokenBegin(p) ==
  /\ calls[p].pc = "idle"
  /\ calls' = [calls EXCEPT ![p] =
                 IF result.cachedToken # 0 /\ result.tokenExpiry # 0 /\ now.day < result.tokenExpiry
                 THEN [pc |-> "cached", now |-> now.day, token |-> result.cachedToken]
                 ELSE [pc |-> "refreshing", now |-> now.day, token |-> 0]]
  /\ UNCHANGED <<arg, result, req, hist, price_history, seasonal_stats, now, env>>

\* axios.post resolves: the token is stored and returned.
TokenRefreshed(p) ==
  /\ calls[p].pc = "refreshing"
  /\ result' = [cachedToken |-> result.issued + 1,
                tokenExpiry |-> calls[p].now + TokenLife,
                issued |-> result.issued + 1]
  /\ calls' = [calls EXCEPT ![p] = [@ EXCEPT !.pc = "refreshed", !.token = result.issued + 1]]
  /\ UNCHANGED <<arg, req, hist, price_history, seasonal_stats, now, env>>

\* axios.post rejects: the call throws.
TokenRefreshFails(p) ==
  /\ calls[p].pc = "refreshing"
  /\ calls' = [calls EXCEPT ![p] = [@ EXCEPT !.pc = "failed"]]
  /\ UNCHANGED <<arg, result, req, hist, price_history, seasonal_stats, now, env>>

\* Time passes.
TokenTick ==
  /\ now.day < MaxTime
  /\ now' = [now EXCEPT !.day = @ + 1]
  /\ UNCHANGED <<arg, result, req, hist, price_history, seasonal_stats, calls, env>>

NextToken ==
  \/ \E p \in 1..NumCalls : TokenBegin(p)
  \/ \E p \in 1..NumCalls : TokenRefreshed(p)
  \/ \E p \in 1..NumCalls : TokenRefreshFails(p)
  \/ TokenTick

SpecToken == InitToken /\ [][NextToken]_vars

\* The calls waiting for the provider's answer to their refresh request.
Refreshing == {p \in 1..NumCalls : calls[p].pc = "refreshing"}

\* C28: at most one token refresh is in flight at any time, and a cached
\* token is returned only while the clock is before its expiry.
C28_SingleFlightRefresh ==
  /\ [](Cardinality(Refreshing) <= 1)
  /\ [][\A p \in 1..NumCalls :
          (calls[p].pc = "idle" /\ calls'[p].pc = "cached") => now.day < result.tokenExpiry]_vars

\* The half that holds: a cached token is returned only before its expiry.
C28_CachedOnlyBeforeExpiry ==
  [][\A p \in 1..NumCalls :
       (calls[p].pc = "idle" /\ calls'[p].pc = "cached") =>
         (now.day < result.tokenExpiry /\ calls'[p].token = result.cachedToken)]_vars

\* Two refresh requests in flight together.
C28_TwoRefreshes == Cardinality(Refreshing) >= 2

(***************************************************************************)
(* GET /api/history                                                        *)
(***************************************************************************)

\* Rows in price_history when the history is read.
MaxRows == 2

\* Snapshots earlier searches can have inserted.
HistoryRows ==
  {[origin |-> "DEL", destination |-> "DXB", departure_date |-> d,
    search_date |-> d - n, days_until_departure |-> n,
    min_price |-> P(150), avg_price |-> P(160), max_price |-> P(170), currency |-> "INR",
    created_at |-> Timestamp([day |-> d - n, pm |-> FALSE])] :
     d \in {SearchDay + 5, SearchDay + 31}, n \in {0, 5, 31}}

\* SELECT days_until_departure, avg_price, min_price, max_price, search_date ...
\* ORDER BY days_until_departure ASC: every order of the matching rows that
\* is ascending (SQL leaves the order of equal keys open).
Columns(r) ==
  [days_until_departure |-> r.days_until_departure, avg_price |-> r.avg_price,
   min_price |-> r.min_price, max_price |-> r.max_price, search_date |-> r.search_date]
SelectHistory(table, origin, destination, departDate) ==
  LET idx == {i \in DOMAIN table : /\ table[i].origin = origin
                                   /\ table[i].destination = destination
                                   /\ table[i].departure_date = departDate}
      orders == {f \in [1..Cardinality(idx) -> idx] :
                   /\ \A i, j \in DOMAIN f : i # j => f[i] # f[j]
                   /\ \A i, j \in DOMAIN f :
                        i < j => table[f[i]].days_until_departure <= table[f[j]].days_until_departure}
  IN  {[i \in DOMAIN f |-> Columns(table[f[i]])] : f \in orders}

InitHistory ==
  /\ price_history \in SeqUpTo(HistoryRows, MaxRows)
  /\ hist = [pc |-> "idle", origin |-> "", destination |-> "", departDate |-> NoDate,
             failed |-> FALSE, response |-> None]
  /\ now = [day |-> SearchDay, pm |-> FALSE]
  /\ arg = None /\ result = None /\ req = None /\ seasonal_stats = {} /\ calls = <<>>
  /\ env = DefaultEnv

\* The request arrives: 400 unless origin, destination and departDate are all there.
HistoryBegin ==
  /\ hist.pc = "idle"
  /\ \E origin \in {"DEL", ""}, destination \in {"DXB", ""}, departDate \in {SearchDay + 5, NoDate} :
       LET h == [hist EXCEPT !.origin = origin, !.destination = destination,
                             !.departDate = departDate]
       IN  hist' = IF origin = "" \/ destination = "" \/ departDate = NoDate
                   THEN [h EXCEPT !.pc = "done", !.response = [status |-> 400, history |-> <<>>]]
                   ELSE [h EXCEPT !.pc = "query"]
  /\ UNCHANGED <<arg, result, req, price_history, seasonal_stats, now, calls, env>>

\* await all(...) resolves with the rows: res.json({history: rows}).
HistoryRowsReturned ==
  /\ hist.pc = "query"
  /\ \E rows \in SelectHistory(price_history, hist.origin, hist.destination, hist.departDate) :
       hist' = [hist EXCEPT !.pc = "done", !.response = [status |-> 200, history |-> rows]]
  /\ UNCHANGED <<arg, result, req, price_history, seasonal_stats, now, calls, env>>

\* await all(...) rejects: the catch answers res.status(500).json({error}).
HistoryFail ==
  /\ hist.pc = "query"
  /\ hist' = [hist EXCEPT !.pc = "done", !.failed = TRUE,
                          !.response = [status |-> 500, history |-> <<>>]]
  /\ UNCHANGED <<arg, result, req, price_history, seasonal_stats, now, calls, env>>

NextHistory == HistoryBegin \/ HistoryRowsReturned \/ HistoryFail

SpecHistory == InitHistory /\ [][NextHistory]_vars

\* C6: a history read with origin, destination and departDate all present
\* never ends in an error: it answers 200 with a history list, the empty
\* list when the storage query failed.
C6_HistoryNeverFails ==
  (hist.pc = "done" /\ hist.origin # "" /\ hist.destination # "" /\ hist.departDate # NoDate) =>
    /\ hist.response.status = 200
    /\ hist.failed => hist.response.history = <<>>

====
